---- MODULE Spec2Model ----
(***************************************************************************)
(* A model of the Scrabble rules engine (src/src/core/game.ts), the tile   *)
(* model (tiles.ts), the endgame move-existence scanner                    *)
(* (workers/endgameScan.worker.ts) and the host session layer              *)
(* (src/src/main.ts) that drives the engine.                               *)
(*                                                                         *)
(* Representation.  A Tile is a record [id, letter, value, blank].  A      *)
(* letter is a one-character string; a word is a sequence of letters.      *)
(* The Cyrillic letters of the 'ru' set are written "r01".."r33" (their    *)
(* index in RU_ALPHABET).  The 15x15 board is kept sparse: a function from *)
(* the occupied coordinates <<x, y>> to the tile in that cell, so that     *)
(* board[y][x].tile of the source is TileAt(board, x, y).                  *)
(***************************************************************************)
EXTENDS Integers, Sequences, FiniteSets, TLC

VARIABLES
    state,      \* the engine's GameState (ScrabbleGame.state)
    ret,        \* the MoveResult / query result of the last engine call
    meta,       \* the host's SessionMeta (main.ts), the part that gates actions
    scan        \* the input and the answer of the last scanner run

vars == <<state, ret, meta, scan>>

\* ------------------------------------------------------------------ bounds
\* Engine calls are explored while moveNumber is below MaxMoves.
MaxMoves == 5
\* placeMove and exchangeTiles are explored in the first MaxTileActions turns.
MaxTileActions == 2
\* Games resumed from a snapshot are explored for MaxEndMoves further turns.
MaxEndMoves == 3
\* Calls with recorded arguments are explored in the first MaxCalls turns.
MaxCalls == 2

\* ------------------------------------------------------- program constants
BOARD_SIZE == 15
MAX_HISTORY == 250
RACK_SIZE == 7
BINGO_BONUS == 50
CENTER == 7

NoTile == [id |-> 0, letter |-> "", value |-> 0, blank |-> FALSE]
Null == "null"

\* ------------------------------------------------------------- sequences
RECURSIVE SumSeq(_)
SumSeq(s) == IF s = <<>> THEN 0 ELSE Head(s) + SumSeq(Tail(s))

Reverse(s) == [i \in 1..Len(s) |-> s[Len(s) + 1 - i]]

Range(s) == {s[i] : i \in 1..Len(s)}

Min2(a, b) == IF a < b THEN a ELSE b
Max2(a, b) == IF a > b THEN a ELSE b

\* Array.prototype.findIndex: the first index (1-based) satisfying the test, 0 if none.
RECURSIVE FindIndexId(_, _, _)
FindIndexId(s, id, i) ==
    IF i > Len(s) THEN 0
    ELSE IF s[i].id = id THEN i
    ELSE FindIndexId(s, id, i + 1)

RemoveAt(s, i) == SubSeq(s, 1, i - 1) \o SubSeq(s, i + 1, Len(s))

\* ------------------------------------------------------------------ tiles
\* tiles.ts: ENGLISH_SET, <<letter, count, value>>
ENGLISH_SET ==
    << <<"A", 9, 1>>, <<"B", 2, 3>>, <<"C", 2, 3>>, <<"D", 4, 2>>, <<"E", 12, 1>>,
       <<"F", 2, 4>>, <<"G", 3, 2>>, <<"H", 2, 4>>, <<"I", 9, 1>>, <<"J", 1, 8>>,
       <<"K", 1, 5>>, <<"L", 4, 1>>, <<"M", 2, 3>>, <<"N", 6, 1>>, <<"O", 8, 1>>,
       <<"P", 2, 3>>, <<"Q", 1, 10>>, <<"R", 6, 1>>, <<"S", 4, 1>>, <<"T", 6, 1>>,
       <<"U", 4, 1>>, <<"V", 2, 4>>, <<"W", 2, 4>>, <<"X", 1, 8>>, <<"Y", 2, 4>>,
       <<"Z", 1, 10>>, <<" ", 2, 0>> >>

\* tiles.ts: RUSSIAN_SET
RUSSIAN_SET ==
    << <<"r01", 8, 1>>, <<"r02", 2, 3>>, <<"r03", 4, 1>>, <<"r04", 2, 3>>,
       <<"r05", 4, 2>>, <<"r06", 8, 1>>, <<"r07", 1, 3>>, <<"r08", 1, 5>>,
       <<"r09", 2, 5>>, <<"r10", 5, 1>>, <<"r11", 1, 4>>, <<"r12", 4, 2>>,
       <<"r13", 4, 2>>, <<"r14", 3, 2>>, <<"r15", 5, 1>>, <<"r16", 10, 1>>,
       <<"r17", 4, 2>>, <<"r18", 5, 1>>, <<"r19", 5, 1>>, <<"r20", 5, 1>>,
       <<"r21", 4, 2>>, <<"r22", 1, 10>>, <<"r23", 1, 5>>, <<"r24", 1, 5>>,
       <<"r25", 1, 5>>, <<"r26", 1, 8>>, <<"r27", 1, 10>>, <<"r28", 1, 10>>,
       <<"r29", 2, 4>>, <<"r30", 2, 2>>, <<"r31", 1, 8>>, <<"r32", 1, 8>>,
       <<"r33", 2, 3>>, <<" ", 2, 0>> >>

specsFor(language) == IF language = "en" THEN ENGLISH_SET ELSE RUSSIAN_SET

getInitialBagSize(language) ==
    LET specs == specsFor(language)
    IN  SumSeq([i \in 1..Len(specs) |-> specs[i][2]])

\* One spec expanded into its tiles; ids continue from `first`.
SpecTiles(spec, first) ==
    [i \in 1..spec[2] |->
        [id |-> first + i - 1, letter |-> spec[1], value |-> spec[3],
         blank |-> (spec[1] = " ")]]

RECURSIVE ExpandSpecs(_, _)
ExpandSpecs(specs, first) ==
    IF specs = <<>> THEN <<>>
    ELSE SpecTiles(Head(specs), first)
            \o ExpandSpecs(Tail(specs), first + Head(specs)[2])

\* buildBag before its shuffle: crypto.randomUUID() ids are 1, 2, ... in creation order.
UnshuffledBag(language) == ExpandSpecs(specsFor(language), 1)

\* ---------------------------------------------------------------- shuffle
\* Fisher-Yates can yield every permutation; the model explores these ones.
Rotate(s, k) ==
    IF Len(s) = 0 THEN s
    ELSE [i \in 1..Len(s) |-> s[((i - 1 + Len(s) - (k % Len(s))) % Len(s)) + 1]]

\* Rotations explored for buildBag's initial shuffle.
StartRotations == {1, 39}
\* Rotations explored for shuffleInPlace.
ShuffleRotations == {0, 1}

shuffle(arr) == {Rotate(arr, k) : k \in StartRotations}

shuffleInPlace(arr) == {Rotate(arr, k) : k \in ShuffleRotations}

buildBag(language) == shuffle(UnshuffledBag(language))

\* ------------------------------------------------------------------ board
\* boardLayout.ts buildPremiumMap: the cells are those main.ts premiumClass lists;
\* as the layout's and the scoring tests have it, (5,5) is TL and (1,1)..(4,4) are
\* DW, so a listed letter premium on a diagonal is a letter premium.
TL_CELLS ==
    { <<1, 5>>, <<1, 9>>, <<5, 1>>, <<5, 5>>, <<5, 9>>, <<5, 13>>,
      <<9, 1>>, <<9, 5>>, <<9, 9>>, <<9, 13>>, <<13, 5>>, <<13, 9>> }

DL_CELLS ==
    { <<0, 3>>, <<0, 11>>, <<2, 6>>, <<2, 8>>, <<3, 0>>, <<3, 7>>, <<3, 14>>,
      <<6, 2>>, <<6, 6>>, <<6, 8>>, <<6, 12>>, <<7, 3>>, <<7, 11>>, <<8, 2>>,
      <<8, 6>>, <<8, 8>>, <<8, 12>>, <<11, 0>>, <<11, 7>>, <<11, 14>>,
      <<12, 6>>, <<12, 8>>, <<14, 3>>, <<14, 11>> }

premiumMap(x, y) ==
    IF x = CENTER /\ y = CENTER THEN "CENTER"
    ELSE IF x \in {0, 7, 14} /\ y \in {0, 7, 14} THEN "TW"
    ELSE IF <<x, y>> \in TL_CELLS THEN "TL"
    ELSE IF <<x, y>> \in DL_CELLS THEN "DL"
    ELSE IF (x = y \/ x + y = 14) /\ x \notin {0, 7, 14} THEN "DW"
    ELSE "none"

createBoard == << >>

inBounds(v) == v >= 0 /\ v < BOARD_SIZE

\* board[y][x].tile (NoTile for null); only read at in-bounds coordinates.
TileAt(board, x, y) ==
    IF <<x, y>> \in DOMAIN board THEN board[<<x, y>>] ELSE NoTile

HasTile(board, x, y) == <<x, y>> \in DOMAIN board

boardHasAnyTiles(board) == DOMAIN board /= {}

\* drawTiles handing out the tiles while leaving them in the bag.
drawTiles_NoPop(bag, count) ==
    LET n == Min2(count, Len(bag))
    IN  [tiles |-> [i \in 1..n |-> bag[Len(bag) + 1 - i]], bag |-> bag]

\* bag.pop() `count` times; tiles come from the end of the bag.
drawTiles(bag, count) ==
    LET n == Min2(count, Len(bag))
    IN  [tiles |-> [i \in 1..n |-> bag[Len(bag) + 1 - i]],
         bag   |-> SubSeq(bag, 1, Len(bag) - n)]

\* The check by presence only: an id asked for twice is found twice.
playerHasTiles_ByPresence(rack, tileIds) ==
    \A i \in 1..Len(tileIds) : FindIndexId(rack, tileIds[i], 1) /= 0

\* Multiset check by id: every requested id consumes one rack tile of that id.
RECURSIVE playerHasTiles(_, _)
playerHasTiles(rack, tileIds) ==
    IF tileIds = <<>> THEN TRUE
    ELSE LET idx == FindIndexId(rack, Head(tileIds), 1)
         IN  IF idx = 0 THEN FALSE
             ELSE playerHasTiles(RemoveAt(rack, idx), Tail(tileIds))

RECURSIVE removeTilesFrom(_, _, _)
removeTilesFrom(remaining, removed, tileIds) ==
    IF tileIds = <<>> THEN [removed |-> removed, remaining |-> remaining]
    ELSE LET idx == FindIndexId(remaining, Head(tileIds), 1)
         IN  IF idx = 0 THEN removeTilesFrom(remaining, removed, Tail(tileIds))
             ELSE removeTilesFrom(RemoveAt(remaining, idx),
                                  Append(removed, remaining[idx]), Tail(tileIds))

\* removeTiles reporting the removed tiles while leaving them in the rack.
removeTiles_KeepRack(rack, tileIds) ==
    [removed |-> removeTilesFrom(rack, <<>>, tileIds).removed, remaining |-> rack]

removeTiles(rack, tileIds) == removeTilesFrom(rack, <<>>, tileIds)

PlacementIds(placements) == [i \in 1..Len(placements) |-> placements[i].tile.id]

\* -------------------------------------------------------- move geometry
\* Returns "row", "col" or Null.
inferOrientation(board, placements) ==
    IF Len(placements) = 1 THEN
        LET x == placements[1].x
            y == placements[1].y
            left  == inBounds(x - 1) /\ HasTile(board, x - 1, y)
            right == inBounds(x + 1) /\ HasTile(board, x + 1, y)
            up    == inBounds(y - 1) /\ HasTile(board, x, y - 1)
            down  == inBounds(y + 1) /\ HasTile(board, x, y + 1)
            horizontalNeighbor == left \/ right
            verticalNeighbor == up \/ down
        IN  IF horizontalNeighbor /\ ~verticalNeighbor THEN "row"
            ELSE IF verticalNeighbor /\ ~horizontalNeighbor THEN "col"
            ELSE "row"
    ELSE
        LET sameRow == \A i \in 1..Len(placements) : placements[i].y = placements[1].y
            sameCol == \A i \in 1..Len(placements) : placements[i].x = placements[1].x
        IN  IF sameRow THEN "row" ELSE IF sameCol THEN "col" ELSE Null

Neighbors(x, y) == { <<x + 1, y>>, <<x - 1, y>>, <<x, y + 1>>, <<x, y - 1>> }

TouchesTile(board, x, y) ==
    \E n \in Neighbors(x, y) :
        inBounds(n[1]) /\ inBounds(n[2]) /\ HasTile(board, n[1], n[2])

\* Mutant of touchesExisting: every placement counts as touching the board's tiles.
touchesExisting_Always(board, placements) == TRUE

touchesExisting(board, placements) ==
    \E i \in 1..Len(placements) : TouchesTile(board, placements[i].x, placements[i].y)

isContiguous(board, placements, orientation) ==
    LET coords == {IF orientation = "row" THEN placements[i].x ELSE placements[i].y
                      : i \in 1..Len(placements)}
        constant == IF orientation = "row" THEN placements[1].y ELSE placements[1].x
        min == CHOOSE c \in coords : \A d \in coords : c <= d
        max == CHOOSE c \in coords : \A d \in coords : c >= d
    IN  \A i \in min..max :
            LET x == IF orientation = "row" THEN i ELSE constant
                y == IF orientation = "row" THEN constant ELSE i
            IN  HasTile(board, x, y)
                \/ \E k \in 1..Len(placements) :
                        placements[k].x = x /\ placements[k].y = y

\* ------------------------------------------------------- word collection
ApplyPlacement(board, p) == (<<p.x, p.y>> :> p.tile) @@ board

\* placements.forEach: a later placement on the same cell overwrites an earlier one.
RECURSIVE ApplyPlacements(_, _)
ApplyPlacements(board, placements) ==
    IF placements = <<>> THEN board
    ELSE ApplyPlacements(ApplyPlacement(board, Head(placements)), Tail(placements))

StepX(orientation) == IF orientation = "row" THEN 1 ELSE 0
StepY(orientation) == IF orientation = "row" THEN 0 ELSE 1

\* The first loop of collectWord: walk back while the previous cell holds a tile.
RECURSIVE WordStart(_, _, _, _)
WordStart(board, x, y, orientation) ==
    LET nx == x - StepX(orientation)
        ny == y - StepY(orientation)
    IN  IF ~inBounds(nx) \/ ~inBounds(ny) \/ ~HasTile(board, nx, ny) THEN <<x, y>>
        ELSE WordStart(board, nx, ny, orientation)

\* The second loop of collectWord: collect cells while they hold a tile.
RECURSIVE WordCells(_, _, _, _)
WordCells(board, x, y, orientation) ==
    IF inBounds(x) /\ inBounds(y) /\ HasTile(board, x, y)
    THEN <<[x |-> x, y |-> y, tile |-> TileAt(board, x, y), premium |-> premiumMap(x, y)]>>
            \o WordCells(board, x + StepX(orientation), y + StepY(orientation), orientation)
    ELSE <<>>

WordCellsFrom(board, start, orientation) == WordCells(board, start[1], start[2], orientation)

collectWord(board, startPlacement, orientation) ==
    WordCellsFrom(board, WordStart(board, startPlacement.x, startPlacement.y, orientation),
                  orientation)

\* selectPrimaryWordCells for a single tile: colCells if longer, else rowCells.
LongerWordCells(rowCells, colCells) ==
    IF Len(colCells) > Len(rowCells) THEN colCells ELSE rowCells

selectPrimaryWordCells(board, placements, orientation) ==
    IF Len(placements) /= 1 THEN collectWord(board, placements[1], orientation)
    ELSE LongerWordCells(collectWord(board, placements[1], "row"),
                         collectWord(board, placements[1], "col"))

WordOf(cells) == [i \in 1..Len(cells) |-> cells[i].tile.letter]

\* addWord: keyed by `${dir}:${x},${y}` of the first cell; a key already present is skipped.
addWord(formed, dir, cells) ==
    IF cells = <<>> THEN formed
    ELSE LET key == <<dir, cells[1].x, cells[1].y>>
         IN  IF \E i \in 1..Len(formed) : formed[i].key = key THEN formed
             ELSE Append(formed, [key |-> key, word |-> WordOf(cells), cells |-> cells])

\* The body of collectFormedWords' loop for one placement.
addCrossWords(formed, rowCells, colCells) ==
    LET f1 == IF Len(rowCells) > 1 THEN addWord(formed, "row", rowCells) ELSE formed
    IN  IF Len(colCells) > 1 THEN addWord(f1, "col", colCells) ELSE f1

RECURSIVE AddCrossWords(_, _, _)
AddCrossWords(formed, board, placements) ==
    IF placements = <<>> THEN formed
    ELSE AddCrossWords(addCrossWords(formed, collectWord(board, Head(placements), "row"),
                                     collectWord(board, Head(placements), "col")),
                       board, Tail(placements))

\* The formed words in insertion order of the Map (primary word first).
collectFormedWords(board, placements, orientation) ==
    AddCrossWords(addWord(<<>>, orientation,
                          selectPrimaryWordCells(board, placements, orientation)),
                  board, placements)

\* ----------------------------------------------------------------- scoring
CellScore(cell, placementKeys) ==
    IF <<cell.x, cell.y>> \in placementKeys
    THEN IF cell.premium = "DL" THEN cell.tile.value * 2
         ELSE IF cell.premium = "TL" THEN cell.tile.value * 3
         ELSE cell.tile.value
    ELSE cell.tile.value

\* Mutant of scoreCells: a word premium under a tile already on the board counts too.
CellMultiplier_AlsoExisting(cell, placementKeys) ==
    IF cell.premium \in {"DW", "CENTER"} THEN 2
    ELSE IF cell.premium = "TW" THEN 3
    ELSE 1

CellMultiplier(cell, placementKeys) ==
    IF <<cell.x, cell.y>> \in placementKeys
    THEN IF cell.premium \in {"DW", "CENTER"} THEN 2
         ELSE IF cell.premium = "TW" THEN 3
         ELSE 1
    ELSE 1

RECURSIVE ProductSeq(_)
ProductSeq(s) == IF s = <<>> THEN 1 ELSE Head(s) * ProductSeq(Tail(s))

scoreCells(cells, placementKeys) ==
    SumSeq([i \in 1..Len(cells) |-> CellScore(cells[i], placementKeys)])
        * ProductSeq([i \in 1..Len(cells) |-> CellMultiplier(cells[i], placementKeys)])

\* ------------------------------------------------------------ word checker
\* A WordChecker is [kind, words, strict, minLength, allWords].  kind "dictionary"
\* is the checker main.ts builds from dictionaryService (words: the language's
\* cache, strict: the 'ru-strict' cache, minLength: set by setMinWordLength);
\* kind "plain" is a caller's own function, membership in `words` of words of at
\* least minLength letters; kind "always" is the tests' acceptAllWords.  allWords says whether getAllWords is "absent", yields
\* "null" (dictionary unavailable), or yields the "full" set `words`.
LOWER ==
        ("a" :> "A") @@ ("b" :> "B") @@ ("c" :> "C") @@ ("d" :> "D") @@ ("e"
        :> "E") @@ ("f" :> "F") @@ ("g" :> "G") @@ ("h" :> "H") @@ ("i" :>
        "I") @@ ("j" :> "J") @@ ("k" :> "K") @@ ("l" :> "L") @@ ("m" :> "M")
        @@ ("n" :> "N") @@ ("o" :> "O") @@ ("p" :> "P") @@ ("q" :> "Q") @@
        ("r" :> "R") @@ ("s" :> "S") @@ ("t" :> "T") @@ ("u" :> "U") @@ ("v"
        :> "V") @@ ("w" :> "W") @@ ("x" :> "X") @@ ("y" :> "Y") @@ ("z" :>
        "Z")

toUpperCase(letter) == IF letter \in DOMAIN LOWER THEN LOWER[letter] ELSE letter

RECURSIVE trimStart(_)
trimStart(word) ==
    IF word /= <<>> /\ Head(word) = " " THEN trimStart(Tail(word)) ELSE word

trim(word) == Reverse(trimStart(Reverse(trimStart(word))))

\* dictionaryService.ts normalize: word.trim().toUpperCase()
normalize(word) == LET t == trim(word) IN [i \in 1..Len(t) |-> toUpperCase(t[i])]

\* dictionaryService.ts hasWord; the dictionary is available iff getAllWords
\* yields its word set.
hasWord(chk, word, language) ==
    LET norm == normalize(word)
    IN  IF Len(norm) < chk.minLength THEN FALSE
        ELSE IF chk.allWords /= "full"
            THEN language = "ru" /\ norm \in chk.strict
        ELSE IF norm \in chk.words THEN TRUE
        ELSE language = "ru" /\ norm \in chk.strict

\* checkWord(word, language): the WordChecker applied to a formed word.
checkWord(chk, word, language) ==
    IF chk.kind = "dictionary" THEN hasWord(chk, word, language)
    ELSE IF chk.kind = "always" THEN TRUE
    ELSE Len(word) >= chk.minLength /\ word \in chk.words

\* Index of the first formed word the checker rejects, 0 if all are accepted.
RECURSIVE FirstInvalid(_, _, _, _)
FirstInvalid(formed, chk, language, i) ==
    IF i > Len(formed) THEN 0
    ELSE IF ~checkWord(chk, formed[i].word, language) THEN i
    ELSE FirstInvalid(formed, chk, language, i + 1)

\* computeScore: [threw, invalidWord, words, score]; threw models `throw new Error`.
PlacementKeys(placements) ==
    {<<placements[i].x, placements[i].y>> : i \in 1..Len(placements)}

\* computeScore once the formed words are collected; `bad` is the index of the
\* first word the checker rejects, 0 if none.
scoreFormedWords(formedWords, bad, placementKeys) ==
    IF bad /= 0
    THEN [threw |-> TRUE, invalidWord |-> formedWords[bad].word,
          words |-> <<>>, score |-> 0]
    ELSE [threw |-> FALSE, invalidWord |-> <<>>,
          words |-> [i \in 1..Len(formedWords) |-> formedWords[i].word],
          score |-> SumSeq([i \in 1..Len(formedWords) |->
                              scoreCells(formedWords[i].cells, placementKeys)])
                    + (IF Cardinality(placementKeys) = RACK_SIZE THEN BINGO_BONUS ELSE 0)]

\* Mutant of computeScore's validation: only the primary word is checked.
checkFormedWords_PrimaryOnly(formedWords, placements, language, chk) ==
    scoreFormedWords(formedWords,
                     FirstInvalid(SubSeq(formedWords, 1, Min2(1, Len(formedWords))),
                                  chk, language, 1),
                     PlacementKeys(placements))

checkFormedWords(formedWords, placements, language, chk) ==
    scoreFormedWords(formedWords, FirstInvalid(formedWords, chk, language, 1),
                     PlacementKeys(placements))

computeScore(board, placements, orientation, language, chk) ==
    checkFormedWords(collectFormedWords(ApplyPlacements(board, placements), placements,
                                        orientation),
                     placements, language, chk)

\* ------------------------------------------------------------ game state
NoEnd == [reason |-> "none", finalScores |-> << >>]

\* A MoveResult; absent optional fields are "", <<>>, 0 and NoEnd.
Rejected(message) ==
    [success |-> FALSE, message |-> message, badWord |-> <<>>, scoreDelta |-> 0,
     words |-> <<>>, gameEnded |-> NoEnd]

RejectedWord(word) ==
    [success |-> FALSE, message |-> "Invalid word", badWord |-> word, scoreDelta |-> 0,
     words |-> <<>>, gameEnded |-> NoEnd]

Accepted(scoreDelta, words, gameEnded) ==
    [success |-> TRUE, message |-> "", badWord |-> <<>>, scoreDelta |-> scoreDelta,
     words |-> words, gameEnded |-> gameEnded]

IndexOf(players, current) ==
    IF \E i \in 1..Len(players) : players[i] = current
    THEN CHOOSE i \in 1..Len(players) :
            players[i] = current /\ \A j \in 1..(i - 1) : players[j] /= current
    ELSE 0

\* Mutant of nextPlayer: the turn stays with the caller.
nextPlayer_Stays(players, current) == current

\* players.indexOf is 0-based (-1 if absent); the sequence is 1-based.
nextPlayer(players, current) ==
    LET idx == IndexOf(players, current) - 1
        next == (idx + 1) % Len(players)
    IN  players[next + 1]

\* recordHistory cutting the end of the history instead of its beginning.
recordHistory_KeepsOldest(history, entry) ==
    LET pushed == Append(history, entry)
    IN  IF Len(pushed) > MAX_HISTORY THEN SubSeq(pushed, 1, MAX_HISTORY) ELSE pushed

recordHistory(history, entry) ==
    LET pushed == Append(history, entry)
    IN  IF Len(pushed) > MAX_HISTORY
        THEN SubSeq(pushed, Len(pushed) - MAX_HISTORY + 1, Len(pushed))
        ELSE pushed

RackValue(rack) == SumSeq([i \in 1..Len(rack) |-> rack[i].value])

applyEndGameScoring(s) ==
    [s EXCEPT !.scores =
        [p \in DOMAIN s.scores |->
            IF p \in Range(s.players) THEN s.scores[p] - RackValue(s.racks[p])
            ELSE s.scores[p]]]

\* Mutant of checkSequentialSkips: four passes in a row end a game of any size.
checkSequentialSkips_AnyCount(s) ==
    IF Len(s.history) < 4 THEN FALSE
    ELSE \A i \in (Len(s.history) - 3)..Len(s.history) : s.history[i].type = "PASS"

\* Mutant of checkSequentialSkips: five history entries are required.
checkSequentialSkips_NeedsFive(s) ==
    IF Len(s.players) /= 2 THEN FALSE
    ELSE IF Len(s.history) < 5 THEN FALSE
    ELSE \A i \in (Len(s.history) - 3)..Len(s.history) : s.history[i].type = "PASS"

checkSequentialSkips(s) ==
    IF Len(s.players) /= 2 THEN FALSE
    ELSE IF Len(s.history) < 4 THEN FALSE
    ELSE LET last == SubSeq(s.history, Len(s.history) - 3, Len(s.history))
             p0 == s.players[1]
             p1 == s.players[2]
         IN  IF ~(\A i \in 1..4 : last[i].type = "PASS") THEN FALSE
             ELSE LET okA == last[1].playerId = p0 /\ last[2].playerId = p1
                                /\ last[3].playerId = p0 /\ last[4].playerId = p1
                      okB == last[1].playerId = p1 /\ last[2].playerId = p0
                                /\ last[3].playerId = p1 /\ last[4].playerId = p0
                  IN  okA \/ okB

\* ---------------------------------------------------- end-of-game scan
AllCells == (0..(BOARD_SIZE - 1)) \X (0..(BOARD_SIZE - 1))

computeAnchors(board) ==
    IF ~boardHasAnyTiles(board) THEN { <<CENTER, CENTER>> }
    ELSE {c \in AllCells : ~HasTile(board, c[1], c[2]) /\ TouchesTile(board, c[1], c[2])}

\* Mutant of the center test: every placement counts as covering the center.
CoversCenter_Always(placements) == TRUE

CoversCenter(placements) ==
    \E i \in 1..Len(placements) : placements[i].x = CENTER /\ placements[i].y = CENTER

AllInBounds(placements) ==
    \A i \in 1..Len(placements) : inBounds(placements[i].x) /\ inBounds(placements[i].y)

\* The occupied check left out.
AllCellsEmpty_Always(board, placements) == TRUE

AllCellsEmpty(board, placements) ==
    \A i \in 1..Len(placements) : ~HasTile(board, placements[i].x, placements[i].y)

\* validateMoveOnState, lines 460-464: computeScore did not throw and formed a word.
formsWords(result) == IF result.threw THEN FALSE ELSE Len(result.words) > 0

\* validateMoveOnState, lines 449-464, once the orientation is inferred.
validateOriented(s, placements, orientation, chk) ==
    LET boardIsEmpty == ~boardHasAnyTiles(s.board)
    IN  IF orientation = Null THEN FALSE
        ELSE IF boardIsEmpty /\ ~CoversCenter(placements) THEN FALSE
        ELSE IF ~boardIsEmpty /\ ~touchesExisting(s.board, placements) THEN FALSE
        ELSE IF ~isContiguous(s.board, placements, orientation) THEN FALSE
        ELSE formsWords(computeScore(s.board, placements, orientation, s.language, chk))

validateMoveOnState(s, playerId, placements, chk) ==
    IF Len(placements) = 0 THEN FALSE
    ELSE IF ~AllInBounds(placements) THEN FALSE
    ELSE IF ~playerHasTiles(s.racks[playerId], PlacementIds(placements)) THEN FALSE
    ELSE IF ~AllCellsEmpty(s.board, placements) THEN FALSE
    ELSE validateOriented(s, placements, inferOrientation(s.board, placements), chk)

\* byLetter.get(letter)?.find(t => !usedIds.has(t.id)): index in the rack, 0 if none.
RECURSIVE FindExact(_, _, _, _)
FindExact(rack, letter, usedIds, i) ==
    IF i > Len(rack) THEN 0
    ELSE IF rack[i].letter = letter /\ rack[i].id \notin usedIds THEN i
    ELSE FindExact(rack, letter, usedIds, i + 1)

\* blanks.find(t => !usedBlankIds.has(t.id)): index in the rack, 0 if none.
RECURSIVE FindBlank(_, _, _)
FindBlank(rack, usedBlankIds, i) ==
    IF i > Len(rack) THEN 0
    ELSE IF rack[i].blank /\ rack[i].id \notin usedBlankIds THEN i
    ELSE FindBlank(rack, usedBlankIds, i + 1)

\* The inner loop of hasValidMovesWithWords over the letters of `word` laid from
\* (startX, startY); <<>> when a board letter mismatches or no tile can be chosen.
RECURSIVE BuildCandidate(_, _, _, _, _, _, _, _, _, _)
BuildCandidate(board, rack, word, startX, startY, orientation, i, usedIds, usedBlankIds, acc) ==
    IF i > Len(word) THEN acc
    ELSE LET x == startX + (i - 1) * StepX(orientation)
             y == startY + (i - 1) * StepY(orientation)
             letter == word[i]
         IN  IF HasTile(board, x, y)
             THEN IF TileAt(board, x, y).letter /= letter THEN <<>>
                  ELSE BuildCandidate(board, rack, word, startX, startY, orientation,
                                      i + 1, usedIds, usedBlankIds, acc)
             ELSE LET e == FindExact(rack, letter, usedIds, 1)
                      b == IF e = 0 THEN FindBlank(rack, usedBlankIds, 1) ELSE 0
                  IN  IF e /= 0
                      THEN BuildCandidate(board, rack, word, startX, startY, orientation,
                                i + 1, usedIds \cup {rack[e].id}, usedBlankIds,
                                Append(acc, [x |-> x, y |-> y, tile |-> rack[e]]))
                      ELSE IF b /= 0
                      THEN BuildCandidate(board, rack, word, startX, startY, orientation,
                                i + 1, usedIds \cup {rack[b].id},
                                usedBlankIds \cup {rack[b].id},
                                Append(acc, [x |-> x, y |-> y,
                                    tile |-> [rack[b] EXCEPT !.letter = letter, !.value = 0]]))
                      ELSE <<>>

\* hasValidMovesWithWords, lines 425-431: the candidate placements are tried.
candidateIsValid(s, playerId, boardIsEmpty, chk, placements) ==
    /\ placements /= <<>>
    /\ (boardIsEmpty => CoversCenter(placements))
    /\ validateMoveOnState(s, playerId, placements, chk)

hasValidMovesWithWords(s, playerId, anchors, boardIsEmpty, words, chk) ==
    LET rack == s.racks[playerId]
    IN  IF Len(rack) = 0 THEN FALSE
        ELSE \E rawWord \in words :
             LET word == normalize(rawWord)
             IN  /\ word /= <<>>
                 /\ Len(word) <= BOARD_SIZE
                 /\ \E anchor \in anchors : \E orientation \in {"row", "col"} :
                    \E idx \in 0..(Len(word) - 1) :
                        LET startX == IF orientation = "row" THEN anchor[1] - idx ELSE anchor[1]
                            startY == IF orientation = "row" THEN anchor[2] ELSE anchor[2] - idx
                            endX == IF orientation = "row" THEN startX + Len(word) - 1 ELSE startX
                            endY == IF orientation = "row" THEN startY ELSE startY + Len(word) - 1
                        IN  /\ inBounds(startX) /\ inBounds(startY)
                            /\ inBounds(endX) /\ inBounds(endY)
                            /\ candidateIsValid(s, playerId, boardIsEmpty, chk,
                                    BuildCandidate(s.board, rack, word, startX, startY,
                                                   orientation, 1, {}, {}, <<>>))

\* resolveAllWords: isNull when getAllWords is absent or yields null.
resolveAllWords(chk) ==
    IF chk.allWords = "absent" THEN [isNull |-> TRUE, words |-> {}]
    ELSE IF chk.allWords = "null" THEN [isNull |-> TRUE, words |-> {}]
    ELSE [isNull |-> FALSE, words |-> chk.words]

\* Mutant of checkAllPlayersHaveNoValidMoves: no word set means no moves.
checkAllPlayersHaveNoValidMoves_NullIsNone(s, chk) ==
    LET words == resolveAllWords(chk)
    IN  IF words.isNull THEN TRUE
        ELSE \A i \in 1..Len(s.players) :
                ~hasValidMovesWithWords(s, s.players[i], computeAnchors(s.board),
                                        ~boardHasAnyTiles(s.board), words.words, chk)

checkAllPlayersHaveNoValidMoves(s, chk) ==
    LET words == resolveAllWords(chk)
    IN  IF words.isNull THEN FALSE
        ELSE \A i \in 1..Len(s.players) :
                ~hasValidMovesWithWords(s, s.players[i], computeAnchors(s.board),
                                        ~boardHasAnyTiles(s.board), words.words, chk)

hasValidMoves(s, playerId, chk) ==
    LET words == resolveAllWords(chk)
    IN  IF words.isNull THEN TRUE
        ELSE hasValidMovesWithWords(s, playerId, computeAnchors(s.board),
                                    ~boardHasAnyTiles(s.board), words.words, chk)

\* Mutant of checkGameEnd: the bag need not be empty, only below half.
checkGameEnd_IgnoresBag(s, chk) ==
    IF checkSequentialSkips(s) THEN [ended |-> TRUE, reason |-> "four_passes"]
    ELSE IF ~(Len(s.bag) * 2 < getInitialBagSize(s.language))
        THEN [ended |-> FALSE, reason |-> "none"]
    ELSE IF checkAllPlayersHaveNoValidMoves(s, chk)
        THEN [ended |-> TRUE, reason |-> "no_moves_bag_empty"]
    ELSE [ended |-> FALSE, reason |-> "none"]

\* checkGameEnd: [ended, reason]
checkGameEnd(s, chk) ==
    IF checkSequentialSkips(s) THEN [ended |-> TRUE, reason |-> "four_passes"]
    ELSE IF ~(Len(s.bag) * 2 < getInitialBagSize(s.language))
        THEN [ended |-> FALSE, reason |-> "none"]
    ELSE IF Len(s.bag) /= 0 THEN [ended |-> FALSE, reason |-> "none"]
    ELSE IF checkAllPlayersHaveNoValidMoves(s, chk)
        THEN [ended |-> TRUE, reason |-> "no_moves_bag_empty"]
    ELSE [ended |-> FALSE, reason |-> "none"]

\* ------------------------------------------------------ engine operations
\* Each operation yields [state, result]: the GameState after the call and the
\* MoveResult it returns.

\* start(language, players), one game per outcome of buildBag's shuffle.
RECURSIVE DealRacks(_, _, _)
DealRacks(players, bag, racks) ==
    IF players = <<>> THEN [racks |-> racks, bag |-> bag]
    ELSE LET d == drawTiles(bag, RACK_SIZE)
         IN  DealRacks(Tail(players), d.bag, (Head(players) :> d.tiles) @@ racks)

start(language, players) ==
    { LET dealt == DealRacks(players, bag, << >>)
      IN  [board |-> createBoard,
           bag |-> dealt.bag,
           racks |-> dealt.racks,
           scores |-> [p \in Range(players) |-> 0],
           currentPlayer |-> players[1],
           players |-> players,
           language |-> language,
           moveNumber |-> 0,
           lastMove |-> <<>>,
           history |-> <<>>]
      : bag \in buildBag(language) }

\* resume(snapshot): structuredClone installs an equal, independent value.
resume(snapshot) == snapshot

\* placeMove writing the move number it found into lastMove and the history entry.
placeMoveApply_StaleNumber(s, playerId, placements, scoreResult, remaining, drawn) ==
    [s EXCEPT
        !.board = ApplyPlacements(s.board, placements),
        !.racks[playerId] = remaining \o drawn.tiles,
        !.bag = drawn.bag,
        !.scores[playerId] = @ + scoreResult.score,
        !.moveNumber = s.moveNumber + 1,
        !.lastMove = [moveNumber |-> s.moveNumber, playerId |-> playerId,
                      placed |-> [i \in 1..Len(placements) |->
                                    <<placements[i].x, placements[i].y>>]],
        !.currentPlayer = nextPlayer(s.players, playerId),
        !.history = recordHistory(s.history,
                        [type |-> "MOVE", moveNumber |-> s.moveNumber,
                         playerId |-> playerId,
                         scoreDelta |-> scoreResult.score,
                         words |-> scoreResult.words,
                         placedTiles |-> Len(placements)])]

\* placeMove, lines 186-216: the placements are laid on the board, the rack loses
\* them and is refilled with `drawn`, score, turn, lastMove and history are updated.
placeMoveApply(s, playerId, placements, scoreResult, remaining, drawn) ==
    LET moveNumber1 == s.moveNumber + 1
    IN  [s EXCEPT
            !.board = ApplyPlacements(s.board, placements),
            !.racks[playerId] = remaining \o drawn.tiles,
            !.bag = drawn.bag,
            !.scores[playerId] = @ + scoreResult.score,
            !.moveNumber = moveNumber1,
            !.lastMove = [moveNumber |-> moveNumber1, playerId |-> playerId,
                          placed |-> [i \in 1..Len(placements) |->
                                        <<placements[i].x, placements[i].y>>]],
            !.currentPlayer = nextPlayer(s.players, playerId),
            !.history = recordHistory(s.history,
                            [type |-> "MOVE", moveNumber |-> moveNumber1,
                             playerId |-> playerId,
                             scoreDelta |-> scoreResult.score,
                             words |-> scoreResult.words,
                             placedTiles |-> Len(placements)])]

\* placeMove leaving the rack as the move left it, with no draw.
placeMoveDraw_NoRefill(s, playerId, placements, scoreResult, remaining) ==
    placeMoveApply(s, playerId, placements, scoreResult, remaining, drawTiles(s.bag, 0))

\* placeMove drawing one tile fewer than were placed, whatever the rack holds.
placeMoveDraw_OneShort(s, playerId, placements, scoreResult, remaining) ==
    placeMoveApply(s, playerId, placements, scoreResult, remaining,
                   drawTiles(s.bag, Len(placements) - 1))

\* placeMove, lines 193-197: tilesNeeded = max(0, 7 - rack length) tiles are drawn.
placeMoveDraw(s, playerId, placements, scoreResult, remaining) ==
    placeMoveApply(s, playerId, placements, scoreResult, remaining,
                   drawTiles(s.bag, Max2(0, RACK_SIZE - Len(remaining))))

\* placeMove, lines 218-229: the result, with the gameEnded payload after the final
\* scoring when `ended` reports an end.
placeMoveResult(s1, scoreResult, ended) ==
    IF ended.ended /\ ended.reason /= "none"
    THEN LET s2 == applyEndGameScoring(s1)
         IN  [state |-> s2,
              result |-> Accepted(scoreResult.score, scoreResult.words,
                            [reason |-> ended.reason, finalScores |-> s2.scores])]
    ELSE [state |-> s1, result |-> Accepted(scoreResult.score, scoreResult.words, NoEnd)]

\* placeMove, line 218: checkGameEnd on the state after the move.
placeMoveEnd(s1, scoreResult, chk) ==
    placeMoveResult(s1, scoreResult, checkGameEnd(s1, chk))

\* placeMove, lines 178-229, once computeScore has returned or thrown.
placeMoveScored(s, playerId, placements, chk, scoreResult) ==
    IF scoreResult.threw
    THEN [state |-> s, result |-> RejectedWord(scoreResult.invalidWord)]
    ELSE IF Len(scoreResult.words) = 0
    THEN [state |-> s, result |-> Rejected("No valid word formed")]
    ELSE placeMoveEnd(
            placeMoveDraw(s, playerId, placements, scoreResult,
                removeTiles(s.racks[playerId], PlacementIds(placements)).remaining),
            scoreResult, chk)

placeMove(s, playerId, placements, chk) ==
    IF s.currentPlayer /= playerId THEN [state |-> s, result |-> Rejected("Not your turn")]
    ELSE IF Len(placements) = 0
        THEN [state |-> s, result |-> Rejected("Place at least one tile")]
    ELSE IF ~AllInBounds(placements)
        THEN [state |-> s, result |-> Rejected("Placement outside board")]
    ELSE IF ~playerHasTiles(s.racks[playerId], PlacementIds(placements))
        THEN [state |-> s, result |-> Rejected("Tile not in rack")]
    ELSE IF ~AllCellsEmpty(s.board, placements)
        THEN [state |-> s, result |-> Rejected("Cell already occupied")]
    ELSE LET orientation == inferOrientation(s.board, placements)
             boardIsEmpty == ~boardHasAnyTiles(s.board)
         IN
         IF orientation = Null
         THEN [state |-> s, result |-> Rejected("Tiles must align in a row or column")]
         ELSE IF boardIsEmpty /\ ~CoversCenter(placements)
         THEN [state |-> s, result |-> Rejected("First move must cover center")]
         ELSE IF ~boardIsEmpty /\ ~touchesExisting(s.board, placements)
         THEN [state |-> s, result |-> Rejected("Move must connect to existing tiles")]
         ELSE IF ~isContiguous(s.board, placements, orientation)
         THEN [state |-> s, result |-> Rejected("Tiles must form a contiguous line")]
         ELSE placeMoveScored(s, playerId, placements, chk,
                    computeScore(s.board, placements, orientation, s.language, chk))

\* Mutant of passTurn: a pass out of turn is rejected but counted as a turn.
passTurn_CountsRejected(s, playerId) ==
    IF s.currentPlayer /= playerId
    THEN [state |-> [s EXCEPT !.moveNumber = @ + 1], result |-> Rejected("Not your turn")]
    ELSE [state |-> [s EXCEPT
                        !.currentPlayer = nextPlayer(s.players, playerId),
                        !.moveNumber = @ + 1,
                        !.history = recordHistory(s.history,
                                        [type |-> "PASS", moveNumber |-> s.moveNumber + 1,
                                         playerId |-> playerId])],
          result |-> Accepted(0, <<>>, NoEnd)]

passTurn(s, playerId) ==
    IF s.currentPlayer /= playerId THEN [state |-> s, result |-> Rejected("Not your turn")]
    ELSE LET moveNumber1 == s.moveNumber + 1
             s1 == [s EXCEPT
                     !.currentPlayer = nextPlayer(s.players, playerId),
                     !.moveNumber = moveNumber1,
                     !.history = recordHistory(s.history,
                                    [type |-> "PASS", moveNumber |-> moveNumber1,
                                     playerId |-> playerId])]
         IN  IF checkSequentialSkips(s1)
             THEN LET s2 == applyEndGameScoring(s1)
                  IN  [state |-> s2,
                       result |-> Accepted(0, <<>>,
                                    [reason |-> "four_passes", finalScores |-> s2.scores])]
             ELSE [state |-> s1, result |-> Accepted(0, <<>>, NoEnd)]

\* exchangeTiles, lines 257-268: the message of the first failing check, "" if none.
exchangeRejection_NoBagCheck(s, playerId, tileIds) ==
    IF s.currentPlayer /= playerId THEN "Not your turn"
    ELSE IF Len(tileIds) = 0 THEN "Choose tiles to exchange"
    ELSE IF ~playerHasTiles(s.racks[playerId], tileIds) THEN "Tile not in rack"
    ELSE ""

exchangeRejection(s, playerId, tileIds) ==
    IF s.currentPlayer /= playerId THEN "Not your turn"
    ELSE IF Len(tileIds) = 0 THEN "Choose tiles to exchange"
    ELSE IF Len(s.bag) < Len(tileIds) THEN "Not enough tiles in bag"
    ELSE IF ~playerHasTiles(s.racks[playerId], tileIds) THEN "Tile not in rack"
    ELSE ""

\* exchangeTiles with the exchanged tiles returned to the bag before the draw.
exchangeTiles_ReturnFirst(s, playerId, tileIds) ==
    IF exchangeRejection(s, playerId, tileIds) /= ""
    THEN {[state |-> s, result |-> Rejected(exchangeRejection(s, playerId, tileIds))]}
    ELSE
    LET rt == removeTiles(s.racks[playerId], tileIds)
        drawCount == Min2(Len(rt.removed), Max2(0, RACK_SIZE - Len(rt.remaining)))
        moveNumber1 == s.moveNumber + 1
    IN  { LET drawn == drawTiles(bag1, drawCount)
          IN  [state |->
                [s EXCEPT
                    !.racks[playerId] = rt.remaining \o drawn.tiles,
                    !.bag = drawn.bag,
                    !.moveNumber = moveNumber1,
                    !.currentPlayer = nextPlayer(s.players, playerId),
                    !.history = recordHistory(s.history,
                                    [type |-> "EXCHANGE", moveNumber |-> moveNumber1,
                                     playerId |-> playerId,
                                     exchangedTiles |-> Len(rt.removed)])],
               result |-> Accepted(0, <<>>, NoEnd)]
          : bag1 \in shuffleInPlace(s.bag \o rt.removed) }

\* exchangeTiles, one outcome per pair of shuffleInPlace results.
exchangeTiles(s, playerId, tileIds) ==
    IF exchangeRejection(s, playerId, tileIds) /= ""
    THEN {[state |-> s, result |-> Rejected(exchangeRejection(s, playerId, tileIds))]}
    ELSE
    LET rt == removeTiles(s.racks[playerId], tileIds)
        drawCount == Min2(Len(rt.removed), Max2(0, RACK_SIZE - Len(rt.remaining)))
        moveNumber1 == s.moveNumber + 1
    IN  { LET drawn == drawTiles(bag1, drawCount)
          IN  [state |->
                [s EXCEPT
                    !.racks[playerId] = rt.remaining \o drawn.tiles,
                    !.bag = bag2,
                    !.moveNumber = moveNumber1,
                    !.currentPlayer = nextPlayer(s.players, playerId),
                    !.history = recordHistory(s.history,
                                    [type |-> "EXCHANGE", moveNumber |-> moveNumber1,
                                     playerId |-> playerId,
                                     exchangedTiles |-> Len(rt.removed)])],
               result |-> Accepted(0, <<>>, NoEnd)]
          : <<bag1, bag2>> \in
                UNION { {<<b1, b2>> : b2 \in shuffleInPlace(drawTiles(b1, drawCount).bag \o rt.removed)}
                        : b1 \in shuffleInPlace(s.bag) } }

\* ------------------------------------------------------------------ inputs
\* The games explored: <<language, players>>.
GameConfigs ==
    { <<"en", <<"p1", "p2">> >>, <<"ru", <<"p1">> >>, <<"en", <<"p1", "p2", "p3">> >> }

\* The dictionaries behind the word checkers, per language.
WordsFor(language) ==
    IF language = "en"
    THEN { <<"O", "N">>, <<"N", "O">>, <<"O", "M">>, <<"M", "O">>, <<"N", "O", "O", "N">>,
           <<"O">>, <<"Z", "O">>, <<"Y", "O">>, <<"C", "A", "T">> }
    ELSE { <<"r17", "r16">>, <<"r16">>, <<"r33", "r05">> }

\* Word checkers handed to placeMove in games started by start().
StrictWordsFor(language) == IF language = "ru" THEN { <<"r16", "r17">> } ELSE {}

\* buildWordChecker(): dictionaryService's hasWord and getDictionaryWordSet.
buildWordChecker(language, minLength, available) ==
    [kind |-> "dictionary", words |-> WordsFor(language),
     strict |-> StrictWordsFor(language), minLength |-> minLength,
     allWords |-> IF available THEN "full" ELSE "null"]

\* Word checkers handed to placeMove in games started by start().
StartCheckers(language) == { buildWordChecker(language, m, TRUE) : m \in {1, 2} }

\* Letters a caller may have chosen for a blank (" " is the unassigned blank).
BlankLetters(language) == IF language = "en" THEN {"O", " "} ELSE {"r05", " "}

\* Cells a placement starts from.
OriginCells == { <<7, 7>>, <<6, 7>>, <<7, 6>>, <<7, 8>>, <<14, 7>> }

\* <<offsets, picks>>: the offsets of a placement's tiles from its first cell, and
\* which rack tile (by rack index) goes on each; pick 0 is a tile of another owner.
MoveTemplates ==
    { << << <<0, 0>> >>, <<1>> >>, << << <<0, 0>> >>, <<2>> >>, << << <<0, 0>> >>, <<3>> >>,
      << << <<0, 0>> >>, <<0>> >>,
      << << <<0, 0>>, <<1, 0>> >>, <<1, 2>> >>, << << <<0, 0>>, <<1, 0>> >>, <<2, 1>> >>,
      << << <<0, 0>>, <<1, 0>> >>, <<2, 3>> >>, << << <<0, 0>>, <<1, 0>> >>, <<1, 1>> >>,
      << << <<0, 0>>, <<0, 1>> >>, <<1, 2>> >>, << << <<0, 0>>, <<0, 1>> >>, <<2, 1>> >>,
      << << <<0, 0>>, <<0, 1>> >>, <<2, 3>> >>,
      << << <<0, 0>>, <<0, 0>> >>, <<1, 2>> >>,
      << << <<0, 0>>, <<1, 1>> >>, <<1, 2>> >>,
      << << <<0, 0>>, <<2, 0>> >>, <<1, 2>> >>,
      << << <<0, 0>>, <<1, 0>>, <<2, 0>> >>, <<1, 2, 3>> >>,
      << << <<0, 0>>, <<0, 0>>, <<1, 0>> >>, <<1, 2, 3>> >>,
      << << <<0, 0>>, <<0, 0>>, <<1, 0>> >>, <<3, 1, 2>> >> }

\* A tile that is not in `playerId`'s rack: the top of the bag, else a board tile,
\* else a tile of no owner.
ForeignTile(s, playerId) ==
    IF Len(s.bag) > 0 THEN s.bag[Len(s.bag)]
    ELSE IF DOMAIN s.board /= {} THEN s.board[CHOOSE c \in DOMAIN s.board : TRUE]
    ELSE [id |-> 999, letter |-> "O", value |-> 1, blank |-> FALSE]

\* The tile objects a caller can send for pick `k`: the rack tile itself, and for a
\* blank the rack tile with a chosen letter.
PickedTiles(s, playerId, k) ==
    LET rack == s.racks[playerId]
    IN  IF k = 0 THEN {ForeignTile(s, playerId)}
        ELSE IF k > Len(rack) THEN {}
        ELSE IF rack[k].blank
            THEN {[rack[k] EXCEPT !.letter = l] : l \in BlankLetters(s.language)}
        ELSE {rack[k]}

RECURSIVE TileChoices(_, _, _)
TileChoices(s, playerId, picks) ==
    IF picks = <<>> THEN { <<>> }
    ELSE { <<t>> \o rest : t \in PickedTiles(s, playerId, Head(picks)),
                           rest \in TileChoices(s, playerId, Tail(picks)) }

PlacementsOf(s, playerId, origin, template) ==
    { [i \in 1..Len(template[1]) |->
          [x |-> origin[1] + template[1][i][1], y |-> origin[2] + template[1][i][2],
           tile |-> tiles[i]]]
      : tiles \in TileChoices(s, playerId, template[2]) }

\* The placements arguments explored for placeMove(playerId, ...) in state s; a
\* player who is not to move sends the empty placement or a single tile.
PlacementInputs(s, playerId, origins, templates) ==
    IF s.currentPlayer /= playerId
    THEN { <<>> } \cup PlacementsOf(s, playerId, <<CENTER, CENTER>>, << << <<0, 0>> >>, <<1>> >>)
    ELSE { <<>> } \cup
         UNION { PlacementsOf(s, playerId, ot[1], ot[2]) : ot \in origins \X templates }

\* The tileIds arguments explored for exchangeTiles(playerId, ...).
ExchangeInputs(s, playerId) ==
    LET rack == s.racks[playerId]
        f == ForeignTile(s, playerId).id
    IN  { <<>>, <<f>> }
        \cup (IF Len(rack) >= 1 THEN { <<rack[1].id>>, <<rack[1].id, rack[1].id>> } ELSE {})
        \cup (IF Len(rack) >= 2 THEN { <<rack[1].id, rack[2].id>> } ELSE {})

\* ----------------------------------------------------------- engine spec
NoRet ==
    [op |-> "start", playerId |-> "", success |-> TRUE, message |-> "", badWord |-> <<>>,
     scoreDelta |-> 0, words |-> <<>>, gameEnded |-> NoEnd]

Ret(op, playerId, r) ==
    [op |-> op, playerId |-> playerId, success |-> r.success, message |-> r.message,
     badWord |-> r.badWord, scoreDelta |-> r.scoreDelta, words |-> r.words,
     gameEnded |-> r.gameEnded]

NoMeta == [mode |-> "none"]
NoScan == [ran |-> FALSE]

Init ==
    /\ \E cfg \in GameConfigs : state \in start(cfg[1], cfg[2])
    /\ ret = NoRet
    /\ meta = NoMeta
    /\ scan = NoScan

PlaceMove ==
    /\ state.moveNumber < MaxTileActions
    /\ \E playerId \in Range(state.players) :
       \E placements \in PlacementInputs(state, playerId, OriginCells, MoveTemplates) :
       \E chk \in StartCheckers(state.language) :
          \E r \in {placeMove(state, playerId, placements, chk)} :
              /\ state' = r.state
              /\ ret' = Ret("placeMove", playerId, r.result)
    /\ UNCHANGED <<meta, scan>>

PassTurn ==
    /\ state.moveNumber < MaxMoves
    /\ \E playerId \in Range(state.players) :
          \E r \in {passTurn(state, playerId)} :
              /\ state' = r.state
              /\ ret' = Ret("passTurn", playerId, r.result)
    /\ UNCHANGED <<meta, scan>>

ExchangeTiles ==
    /\ state.moveNumber < MaxTileActions
    /\ \E playerId \in Range(state.players) :
       \E tileIds \in ExchangeInputs(state, playerId) :
       \E r \in exchangeTiles(state, playerId, tileIds) :
          /\ state' = r.state
          /\ ret' = Ret("exchangeTiles", playerId, r.result)
    /\ UNCHANGED <<meta, scan>>

Next == PlaceMove \/ PassTurn \/ ExchangeTiles

Spec == Init /\ [][Next]_vars

\* ------------------------------------------------------- end-of-game spec
\* Games resumed from saved snapshots late in a game: the bag is empty or nearly so.
FixtureTile(id, letter, value) == [id |-> id, letter |-> letter, value |-> value, blank |-> FALSE]
FixtureBlank(id) == [id |-> id, letter |-> " ", value |-> 0, blank |-> TRUE]

baseState(board, racks, bag) ==
    [board |-> board, bag |-> bag, racks |-> racks,
     scores |-> [p \in {"p1", "p2"} |-> 0],
     currentPlayer |-> "p1", players |-> <<"p1", "p2">>, language |-> "en",
     moveNumber |-> 0, lastMove |-> <<>>, history |-> <<>>]

BoardON ==
    (<<7, 7>> :> FixtureTile(1, "O", 1)) @@ (<<8, 7>> :> FixtureTile(2, "N", 1))

BoardCAT ==
    (<<6, 7>> :> FixtureTile(1, "C", 3)) @@ (<<7, 7>> :> FixtureTile(2, "A", 1))
        @@ (<<8, 7>> :> FixtureTile(3, "T", 1))

EndSnapshots ==
    { \* ON on the board, both players can still play
      baseState(BoardON, [p1 |-> <<FixtureTile(11, "N", 1), FixtureTile(12, "O", 1)>>,
                          p2 |-> <<FixtureTile(21, "M", 3)>>], <<>>),
      \* nobody can play
      baseState(BoardON, [p1 |-> <<FixtureTile(11, "Q", 10)>>,
                          p2 |-> <<FixtureTile(21, "K", 5)>>], <<>>),
      \* full racks with one playable tile between them, two tiles left in the bag
      baseState(BoardON, [p1 |-> <<FixtureTile(11, "M", 3), FixtureTile(12, "Q", 10),
                                   FixtureTile(13, "X", 8), FixtureTile(14, "J", 8),
                                   FixtureTile(15, "V", 4), FixtureTile(16, "W", 4),
                                   FixtureTile(17, "K", 5)>>,
                          p2 |-> <<FixtureTile(21, "K", 5), FixtureTile(22, "Q", 10),
                                   FixtureTile(23, "X", 8), FixtureTile(24, "J", 8),
                                   FixtureTile(25, "V", 4), FixtureTile(26, "W", 4),
                                   FixtureTile(27, "G", 2)>>],
                <<FixtureTile(31, "B", 3), FixtureTile(32, "F", 4)>>),
      \* CAT on the board, a blank and a Q in the racks
      baseState(BoardCAT, [p1 |-> <<FixtureBlank(11)>>,
                           p2 |-> <<FixtureTile(21, "Q", 10)>>], <<>>),
      \* an empty board
      baseState(createBoard, [p1 |-> <<FixtureTile(11, "O", 1), FixtureTile(12, "N", 1)>>,
                              p2 |-> <<FixtureTile(21, "K", 5)>>], <<>>) }

\* A caller's own checker over the same words, with or without getAllWords.
PlainChecker(language, minLength, allWords) ==
    [kind |-> "plain", words |-> WordsFor(language), strict |-> {},
     minLength |-> minLength, allWords |-> allWords]

EndCheckers(language) ==
    { buildWordChecker(language, 2, TRUE), buildWordChecker(language, 2, FALSE),
      PlainChecker(language, 2, "full"), PlainChecker(language, 2, "null"),
      PlainChecker(language, 2, "absent") }

EndOriginCells == { <<7, 7>>, <<5, 7>>, <<7, 8>>, <<7, 6>>, <<9, 7>> }

EndTemplates ==
    { << << <<0, 0>> >>, <<1>> >>, << << <<0, 0>> >>, <<2>> >>,
      << << <<0, 0>>, <<1, 0>> >>, <<1, 2>> >> }

\* What the last end-of-game evaluation was given and what it answered.
Scanned(chk, reason) == [ran |-> TRUE, chk |-> chk, reason |-> reason]

EndInit ==
    /\ \E snapshot \in EndSnapshots : state = resume(snapshot)
    /\ ret = NoRet
    /\ meta = NoMeta
    /\ scan = NoScan

EndPlaceMove ==
    /\ state.moveNumber < MaxEndMoves
    /\ \E playerId \in Range(state.players) :
       \E placements \in PlacementInputs(state, playerId, EndOriginCells, EndTemplates) :
       \E chk \in EndCheckers(state.language) :
          \E r \in {placeMove(state, playerId, placements, chk)} :
              /\ state' = r.state
              /\ ret' = Ret("placeMove", playerId, r.result)
              /\ scan' = IF r.result.success THEN Scanned(chk, r.result.gameEnded.reason)
                         ELSE NoScan
    /\ UNCHANGED meta

EndPassTurn ==
    /\ state.moveNumber < MaxEndMoves
    /\ \E playerId \in Range(state.players) :
          \E r \in {passTurn(state, playerId)} :
              /\ state' = r.state
              /\ ret' = Ret("passTurn", playerId, r.result)
    /\ scan' = NoScan
    /\ UNCHANGED meta

EndExchangeTiles ==
    /\ state.moveNumber < MaxEndMoves
    /\ \E playerId \in Range(state.players) :
       \E tileIds \in ExchangeInputs(state, playerId) :
       \E r \in exchangeTiles(state, playerId, tileIds) :
          /\ state' = r.state
          /\ ret' = Ret("exchangeTiles", playerId, r.result)
    /\ scan' = NoScan
    /\ UNCHANGED meta

\* game.checkGameEnd(checkWord), a query: the state is left as it is.
CheckGameEnd ==
    /\ \E chk \in EndCheckers(state.language) :
          \E ended \in {checkGameEnd(state, chk)} :
              /\ ret' = [NoRet EXCEPT !.op = "checkGameEnd",
                                      !.gameEnded = [reason |-> ended.reason,
                                                     finalScores |-> <<>>]]
              /\ scan' = Scanned(chk, ended.reason)
    /\ UNCHANGED <<state, meta>>

EndNext == EndPlaceMove \/ EndPassTurn \/ EndExchangeTiles \/ CheckGameEnd

EndSpec == EndInit /\ [][EndNext]_vars

\* ------------------------------------------------------------- host spec
\* The host of a two-player session (main.ts).  meta is the SessionMeta with the
\* module-level lastAutoPassToken; turnDeadline 0 and lastAutoPassToken <<>> are
\* null.  Date.now() is read as Clock: it grows with every turn the engine records.
NoGameOver == [set |-> FALSE, reason |-> "none", moveNumber |-> 0, finalScores |-> <<>>]

Clock(s) == s.moveNumber

HostMeta(timerEnabled) ==
    [mode |-> "host", isHost |-> TRUE, localPlayerId |-> "p1", locked |-> FALSE,
     timerEnabled |-> timerEnabled, timerDurationSec |-> 1, timerStartable |-> TRUE,
     turnDeadline |-> IF timerEnabled THEN 1 ELSE 0,
     gameOver |-> NoGameOver, lastAutoPassToken |-> <<>>]

isPreGameLocked(m) == m.locked

\* resetTurnTimer: the deadline is cleared when the timer is off or may not start
\* yet, and otherwise set to now + timerDurationSec.
resetTurnTimer(m, now) ==
    IF ~m.timerEnabled \/ m.timerDurationSec = 0 THEN [m EXCEPT !.turnDeadline = 0]
    ELSE IF m.turnDeadline = 0 /\ ~m.timerStartable THEN [m EXCEPT !.turnDeadline = 0]
    ELSE [m EXCEPT !.turnDeadline = now + m.timerDurationSec]

\* applyActionButtonsStateToDom: confirm, pass and exchange are enabled iff canAct.
canAct(s, m) == ~isPreGameLocked(m) /\ ~m.gameOver.set /\ s.currentPlayer = m.localPlayerId

GameOverOf(reason, s, finalScores) ==
    [set |-> TRUE, reason |-> reason, moveNumber |-> s.moveNumber, finalScores |-> finalScores]

\* checkAndHandleGameEnd once game.checkGameEnd has answered `ended`.
handleGameEnd(s, m, ended) ==
    IF ~ended.ended \/ ended.reason = "none" THEN [state |-> s, meta |-> m]
    ELSE LET s2 == applyEndGameScoring(s)
         IN  [state |-> s2, meta |-> [m EXCEPT !.gameOver = GameOverOf(ended.reason, s2, s2.scores)]]

checkAndHandleGameEnd(s, m, chk) ==
    IF m.gameOver.set THEN [state |-> s, meta |-> m]
    ELSE IF ~m.isHost /\ m.mode /= "solo" THEN [state |-> s, meta |-> m]
    ELSE handleGameEnd(s, m, checkGameEnd(s, chk))

\* What the host does with the result of a move or a pass (submitMove, submitPass,
\* handleMessage, maybeAutoPassOnTimeout): nothing if it was rejected; otherwise
\* the timer is reset, and gameOver is recorded from result.gameEnded, or else
\* checkAndHandleGameEnd runs.
afterTurn(r, m, chk) ==
    IF ~r.result.success THEN [state |-> r.state, meta |-> m]
    ELSE IF r.result.gameEnded.reason /= "none"
    THEN [state |-> r.state,
          meta |-> [resetTurnTimer(m, Clock(r.state)) EXCEPT
                        !.gameOver = GameOverOf(r.result.gameEnded.reason, r.state,
                                                r.result.gameEnded.finalScores)]]
    ELSE checkAndHandleGameEnd(r.state, resetTurnTimer(m, Clock(r.state)), chk)

\* What the host does with the result of an exchange (submitExchange, handleMessage).
afterExchange(r, m, chk) ==
    IF ~r.result.success THEN [state |-> r.state, meta |-> m]
    ELSE checkAndHandleGameEnd(r.state, resetTurnTimer(m, Clock(r.state)), chk)

\* The token of maybeAutoPassOnTimeout: moveNumber, currentPlayer, turnDeadline.
AutoPassToken(s, m) == <<s.moveNumber, s.currentPlayer, m.turnDeadline>>

\* Sessions the host runs: a new game, or one restored from a snapshot.
HostSnapshots ==
    { baseState(BoardON, [p1 |-> <<FixtureTile(11, "Q", 10)>>,
                          p2 |-> <<FixtureTile(21, "K", 5)>>], <<>>),
      baseState(BoardON, [p1 |-> <<FixtureTile(11, "N", 1), FixtureTile(12, "O", 1)>>,
                          p2 |-> <<FixtureTile(21, "M", 3)>>], <<>>) }

HostOriginCells == { <<7, 7>>, <<7, 8>> }

\* Placements the local board editor can hold: one tile per cell, blanks lettered.
LocalTemplates ==
    { << << <<0, 0>> >>, <<1>> >>,
      << << <<0, 0>>, <<1, 0>> >>, <<2, 3>> >>, << << <<0, 0>>, <<1, 0>> >>, <<1, 2>> >> }

\* Placements a peer's ACTION_MOVE can carry.
PeerTemplates ==
    { << << <<0, 0>> >>, <<1>> >>, << << <<0, 0>> >>, <<2>> >>,
      << << <<0, 0>>, <<0, 0>> >>, <<1, 2>> >> }

PeerMessages(s) ==
    { [type |-> "ACTION_PASS", playerId |-> "p2", placements |-> <<>>, tileIds |-> <<>>] }
    \cup { [type |-> "ACTION_MOVE", playerId |-> "p2", placements |-> pl, tileIds |-> <<>>]
           : pl \in PlacementInputs(s, "p2", HostOriginCells, PeerTemplates) }
    \cup { [type |-> "ACTION_EXCHANGE", playerId |-> "p2", placements |-> <<>>,
            tileIds |-> tileIds] : tileIds \in ExchangeInputs(s, "p2") }

HostInit ==
    /\ \/ state \in start("en", <<"p1", "p2">>)
       \/ \E snapshot \in HostSnapshots : state = resume(snapshot)
    /\ ret = NoRet
    /\ \E timerEnabled \in BOOLEAN : meta = HostMeta(timerEnabled)
    /\ scan = NoScan

\* submitMove on the host, from the enabled Confirm button.
SubmitMove ==
    /\ state.moveNumber < MaxTileActions
    /\ canAct(state, meta)
    /\ ~isPreGameLocked(meta)
    /\ meta.isHost \/ meta.mode = "solo"
    /\ \E placements \in PlacementInputs(state, meta.localPlayerId, HostOriginCells,
                                         LocalTemplates) \ { <<>> } :
       \E chk \in {buildWordChecker(state.language, 2, TRUE)} :
       \E r \in {placeMove(state, meta.localPlayerId, placements, chk)} :
       \E after \in {afterTurn(r, meta, chk)} :
          /\ ret' = Ret("placeMove", meta.localPlayerId, r.result)
          /\ state' = after.state
          /\ meta' = after.meta
    /\ UNCHANGED scan

\* submitPass on the host, from the enabled Pass button.
SubmitPass ==
    /\ state.moveNumber < MaxMoves
    /\ canAct(state, meta)
    /\ ~isPreGameLocked(meta)
    /\ meta.isHost \/ meta.mode = "solo"
    /\ \E chk \in {buildWordChecker(state.language, 2, TRUE)} :
       \E r \in {passTurn(state, meta.localPlayerId)} :
       \E after \in {afterTurn(r, meta, chk)} :
          /\ ret' = Ret("passTurn", meta.localPlayerId, r.result)
          /\ state' = after.state
          /\ meta' = after.meta
    /\ UNCHANGED scan

\* submitExchange on the host, from the enabled Exchange button.
SubmitExchange ==
    /\ state.moveNumber < MaxTileActions
    /\ canAct(state, meta)
    /\ ~isPreGameLocked(meta)
    /\ meta.isHost \/ meta.mode = "solo"
    /\ \E tileIds \in ExchangeInputs(state, meta.localPlayerId) \ { <<>> } :
       \E chk \in {buildWordChecker(state.language, 2, TRUE)} :
       \E r \in exchangeTiles(state, meta.localPlayerId, tileIds) :
       \E after \in {afterExchange(r, meta, chk)} :
          /\ ret' = Ret("exchangeTiles", meta.localPlayerId, r.result)
          /\ state' = after.state
          /\ meta' = after.meta
    /\ UNCHANGED scan

\* handleMessage on the host for a peer's ACTION_MOVE, ACTION_PASS, ACTION_EXCHANGE.
HandleMessage ==
    /\ state.moveNumber < MaxMoves
    /\ meta.isHost
    /\ \E msg \in PeerMessages(state) :
       \E chk \in {buildWordChecker(state.language, 2, TRUE)} :
          \/ /\ msg.type = "ACTION_MOVE"
             /\ state.moveNumber < MaxTileActions
             /\ \E r \in {placeMove(state, msg.playerId, msg.placements, chk)} :
                \E after \in {afterTurn(r, meta, chk)} :
                   /\ ret' = Ret("placeMove", msg.playerId, r.result)
                   /\ state' = after.state
                   /\ meta' = after.meta
          \/ /\ msg.type = "ACTION_PASS"
             /\ \E r \in {passTurn(state, msg.playerId)} :
                \E after \in {afterTurn(r, meta, chk)} :
                   /\ ret' = Ret("passTurn", msg.playerId, r.result)
                   /\ state' = after.state
                   /\ meta' = after.meta
          \/ /\ msg.type = "ACTION_EXCHANGE"
             /\ state.moveNumber < MaxTileActions
             /\ \E r \in exchangeTiles(state, msg.playerId, msg.tileIds) :
                \E after \in {afterExchange(r, meta, chk)} :
                   /\ ret' = Ret("exchangeTiles", msg.playerId, r.result)
                   /\ state' = after.state
                   /\ meta' = after.meta
    /\ UNCHANGED scan

\* renderTimer finds the deadline passed and calls maybeAutoPassOnTimeout.
TimerAutoPass ==
    /\ state.moveNumber < MaxMoves
    /\ meta.isHost \/ meta.mode = "solo"
    /\ meta.timerEnabled /\ meta.timerDurationSec /= 0 /\ meta.turnDeadline /= 0
    /\ AutoPassToken(state, meta) /= meta.lastAutoPassToken
    /\ \E chk \in {buildWordChecker(state.language, 2, TRUE)} :
       \E token \in {AutoPassToken(state, meta)} :
       \E r \in {passTurn(state, state.currentPlayer)} :
       \E after \in {afterTurn(r, [meta EXCEPT !.lastAutoPassToken = token], chk)} :
          /\ ret' = Ret("passTurn", state.currentPlayer, r.result)
          /\ state' = after.state
          /\ meta' = after.meta
    /\ UNCHANGED scan

HostNext == SubmitMove \/ SubmitPass \/ SubmitExchange \/ HandleMessage \/ TimerAutoPass

HostSpec == HostInit /\ [][HostNext]_vars

\* ------------------------------------------------------ end-game scanner
\* endgameScan.worker.ts.  A letter is handled by its 0-based index in the
\* alphabet, a bigint mask by the set of the indices of its set bits, and a trie
\* node by the sequence of indices that leads to it from the root.
EN_ALPHABET ==
    << "A", "B", "C", "D", "E", "F", "G", "H", "I", "J", "K", "L", "M",
       "N", "O", "P", "Q", "R", "S", "T", "U", "V", "W", "X", "Y", "Z" >>

RU_ALPHABET ==
    << "r01", "r02", "r03", "r04", "r05", "r06", "r07", "r08", "r09", "r10", "r11",
       "r12", "r13", "r14", "r15", "r16", "r17", "r18", "r19", "r20", "r21", "r22",
       "r23", "r24", "r25", "r26", "r27", "r28", "r29", "r30", "r31", "r32", "r33" >>

alphabetFor(language) == IF language = "en" THEN EN_ALPHABET ELSE RU_ALPHABET

buildLetterToIndex(alphabet) ==
    [l \in Range(alphabet) |-> (CHOOSE i \in 1..Len(alphabet) : alphabet[i] = l) - 1]

allLettersMask(alphabetLen) == 0..(alphabetLen - 1)

\* Number of leading letters of w that letterToIndex knows (`continue outer` leaves
\* the nodes made so far in the trie).
RECURSIVE KnownPrefix(_, _, _)
KnownPrefix(w, letterToIndex, i) ==
    IF i > Len(w) THEN i - 1
    ELSE IF w[i] \notin DOMAIN letterToIndex THEN i - 1
    ELSE KnownPrefix(w, letterToIndex, i + 1)

IndexWord(w, letterToIndex, n) == [i \in 1..n |-> letterToIndex[w[i]]]

\* The words buildTrie inserts: trimmed, upper-cased, non-empty, at most 15 long.
TrieInput(wordSet) ==
    { w \in { normalize(raw) : raw \in wordSet } : w /= <<>> /\ Len(w) <= BOARD_SIZE }

\* buildTrie: nodes are the prefixes inserted, ends the nodes with end = true.
buildTrie(wordSet, letterToIndex) ==
    [nodes |-> { <<>> } \cup
               UNION { { IndexWord(w, letterToIndex, n)
                         : n \in 1..KnownPrefix(w, letterToIndex, 1) }
                       : w \in TrieInput(wordSet) },
     ends  |-> { IndexWord(w, letterToIndex, Len(w))
                 : w \in { v \in TrieInput(wordSet)
                            : KnownPrefix(v, letterToIndex, 1) = Len(v) } }]

\* The keys of node.children.
Children(root, node) ==
    { n[Len(n)] : n \in { m \in root.nodes : Len(m) = Len(node) + 1
                                              /\ SubSeq(m, 1, Len(node)) = node } }

\* The letters of the run of tiles from (x, y) on in direction (dx, dy).
RECURSIVE LettersFrom(_, _, _, _, _)
LettersFrom(board, x, y, dx, dy) ==
    IF inBounds(x) /\ inBounds(y) /\ HasTile(board, x, y)
    THEN <<TileAt(board, x, y).letter>> \o LettersFrom(board, x + dx, y + dy, dx, dy)
    ELSE <<>>

\* Mutant of crossMask: a cross word shorter than minLength lets every letter
\* through.
crossMask_AllWhenShort(prefix, suffix, alphabet, wordSet, minLength) ==
    IF Len(prefix) + 1 + Len(suffix) < minLength THEN allLettersMask(Len(alphabet))
    ELSE { i \in 0..(Len(alphabet) - 1) : (prefix \o <<alphabet[i + 1]>> \o suffix) \in wordSet }

\* computeMaskAt, lines 168-182, for the perpendicular run `prefix` before and
\* `suffix` after the cell.
crossMask(prefix, suffix, alphabet, wordSet, minLength) ==
    IF prefix = <<>> /\ suffix = <<>> THEN allLettersMask(Len(alphabet))
    ELSE IF Len(prefix) + 1 + Len(suffix) < minLength THEN {}
    ELSE { i \in 0..(Len(alphabet) - 1) : (prefix \o <<alphabet[i + 1]>> \o suffix) \in wordSet }

\* primary = row: the cross word is vertical; primary = col: horizontal.
computeMaskAt(board, x, y, primary, alphabet, wordSet, minLength) ==
    IF HasTile(board, x, y) THEN {}
    ELSE crossMask(Reverse(LettersFrom(board, x - StepY(primary), y - StepX(primary),
                                       0 - StepY(primary), 0 - StepX(primary))),
                   LettersFrom(board, x + StepY(primary), y + StepX(primary),
                               StepY(primary), StepX(primary)),
                   alphabet, wordSet, minLength)

\* computeCrossMasks: row[y][x] and col[y][x] are read as row[<<x, y>>], col[<<x, y>>].
computeCrossMasks(board, alphabet, letterToIndex, wordSet, minLength) ==
    [row |-> [c \in AllCells |->
                computeMaskAt(board, c[1], c[2], "row", alphabet, wordSet, minLength)],
     col |-> [c \in AllCells |->
                computeMaskAt(board, c[1], c[2], "col", alphabet, wordSet, minLength)]]

rackCountsForPlayer(s, playerId, letterToIndex, alphabetLen) ==
    LET rack == IF playerId \in DOMAIN s.racks THEN s.racks[playerId] ELSE <<>>
    IN  [counts |-> [i \in 0..(alphabetLen - 1) |->
                        Cardinality({ k \in 1..Len(rack) :
                            /\ ~rack[k].blank
                            /\ rack[k].letter \in DOMAIN letterToIndex
                            /\ letterToIndex[rack[k].letter] = i })],
         blanks |-> Cardinality({ k \in 1..Len(rack) : rack[k].blank })]

\* fixedPrefixBeforeAnchor once the run of tiles before the anchor is walked
\* (`run` is in walking order, nearest tile first).
fixedPrefixOf(run, anchor, orientation, letterToIndex) ==
    IF \E i \in 1..Len(run) : run[i] \notin DOMAIN letterToIndex
    THEN [isNull |-> TRUE, startX |-> 0, startY |-> 0, letters |-> <<>>]
    ELSE [isNull |-> FALSE,
          startX |-> anchor[1] - StepX(orientation) * Len(run),
          startY |-> anchor[2] - StepY(orientation) * Len(run),
          letters |-> Reverse([i \in 1..Len(run) |-> letterToIndex[run[i]]])]

fixedPrefixBeforeAnchor(board, anchor, orientation, letterToIndex) ==
    fixedPrefixOf(LettersFrom(board, anchor[1] - StepX(orientation),
                              anchor[2] - StepY(orientation),
                              0 - StepX(orientation), 0 - StepY(orientation)),
                  anchor, orientation, letterToIndex)

traverseFixedPrefix(root, node, fixed) ==
    IF \A n \in 1..Len(fixed) : (node \o SubSeq(fixed, 1, n)) \in root.nodes
    THEN [isNull |-> FALSE, node |-> node \o fixed]
    ELSE [isNull |-> TRUE, node |-> <<>>]

\* What the closures of hasAnyMoveRow / hasAnyMoveCol capture.
ScanContext(board, root, letterToIndex, mask, minLength) ==
    [board |-> board, root |-> root, letterToIndex |-> letterToIndex, mask |-> mask,
     minLength |-> minLength]

\* The end-of-word test without the minimum length.
WordEnds_AnyLength(ctx, node, wordLen, usedRack) == usedRack /\ node \in ctx.root.ends

WordEnds(ctx, node, wordLen, usedRack) ==
    usedRack /\ node \in ctx.root.ends /\ wordLen >= ctx.minLength

\* extendRight of hasAnyMoveRow; `counts` is the closure's array as it stands.
RECURSIVE extendRight(_, _, _, _, _, _, _, _, _)
extendRight(ctx, counts, x, y, node, wordLen, blanks, usedRack, anchorX) ==
    IF x >= BOARD_SIZE THEN WordEnds(ctx, node, wordLen, usedRack)
    ELSE IF HasTile(ctx.board, x, y)
    THEN /\ TileAt(ctx.board, x, y).letter \in DOMAIN ctx.letterToIndex
         /\ Append(node, ctx.letterToIndex[TileAt(ctx.board, x, y).letter]) \in ctx.root.nodes
         /\ extendRight(ctx, counts, x + 1, y,
                        Append(node, ctx.letterToIndex[TileAt(ctx.board, x, y).letter]),
                        wordLen + 1, blanks, usedRack, anchorX)
    ELSE \/ x /= anchorX /\ WordEnds(ctx, node, wordLen, usedRack)
         \/ \E idx \in Children(ctx.root, node) :
               /\ idx \in ctx.mask[<<x, y>>]
               /\ IF counts[idx] > 0
                  THEN extendRight(ctx, [counts EXCEPT ![idx] = @ - 1], x + 1, y,
                                   Append(node, idx), wordLen + 1, blanks, TRUE, anchorX)
                  ELSE /\ blanks > 0
                       /\ extendRight(ctx, counts, x + 1, y, Append(node, idx),
                                      wordLen + 1, blanks - 1, TRUE, anchorX)

\* fillLeft, line 321-325: the fixed run is traversed and extendRight takes over.
fillLeftDone(ctx, counts, y, afterFixed, blanks, fixedAfter, anchorX, lenSoFar) ==
    /\ ~afterFixed.isNull
    /\ extendRight(ctx, counts, anchorX, y, afterFixed.node, lenSoFar + Len(fixedAfter),
                   blanks, FALSE, anchorX)

RECURSIVE fillLeft(_, _, _, _, _, _, _, _, _, _)
fillLeft(ctx, counts, x, endXExclusive, y, node, blanks, fixedAfter, anchorX, lenSoFar) ==
    IF x = endXExclusive
    THEN fillLeftDone(ctx, counts, y, traverseFixedPrefix(ctx.root, node, fixedAfter),
                      blanks, fixedAfter, anchorX, lenSoFar)
    ELSE \E idx \in Children(ctx.root, node) :
            /\ idx \in ctx.mask[<<x, y>>]
            /\ IF counts[idx] > 0
               THEN fillLeft(ctx, [counts EXCEPT ![idx] = @ - 1], x + 1, endXExclusive, y,
                             Append(node, idx), blanks, fixedAfter, anchorX, lenSoFar + 1)
               ELSE /\ blanks > 0
                    /\ fillLeft(ctx, counts, x + 1, endXExclusive, y, Append(node, idx),
                                blanks - 1, fixedAfter, anchorX, lenSoFar + 1)

\* The number of empty cells walked from (x, y) in direction (dx, dy).
RECURSIVE EmptyRun(_, _, _, _, _)
EmptyRun(board, x, y, dx, dy) ==
    IF inBounds(x) /\ inBounds(y) /\ ~HasTile(board, x, y)
    THEN 1 + EmptyRun(board, x + dx, y + dy, dx, dy)
    ELSE 0

\* hasAnyMoveRow, lines 346-375, for one anchor whose fixed prefix is `fixed`.
rowAnchorHasMove(ctx, rc, anchor, fixed) ==
    /\ ~fixed.isNull
    /\ \E usedLeft \in 0..EmptyRun(ctx.board, fixed.startX - 1, anchor[2], 0 - 1, 0) :
          /\ ~(inBounds(fixed.startX - usedLeft - 1)
                 /\ HasTile(ctx.board, fixed.startX - usedLeft - 1, anchor[2]))
          /\ fillLeft(ctx, rc.counts, fixed.startX - usedLeft, fixed.startX, anchor[2],
                      <<>>, rc.blanks, fixed.letters, anchor[1], 0)

hasAnyMoveRow(s, playerId, anchors, boardIsEmpty, root, letterToIndex, crossMasksRow, alphabetLen, minLength) ==
    IF Len(IF playerId \in DOMAIN s.racks THEN s.racks[playerId] ELSE <<>>) = 0 THEN FALSE
    ELSE \E anchor \in anchors :
            rowAnchorHasMove(ScanContext(s.board, root, letterToIndex, crossMasksRow, minLength),
                             rackCountsForPlayer(s, playerId, letterToIndex, alphabetLen),
                             anchor,
                             fixedPrefixBeforeAnchor(s.board, anchor, "row", letterToIndex))

\* extendDown of hasAnyMoveCol.
RECURSIVE extendDown(_, _, _, _, _, _, _, _, _)
extendDown(ctx, counts, x, y, node, wordLen, blanks, usedRack, anchorY) ==
    IF y >= BOARD_SIZE THEN WordEnds(ctx, node, wordLen, usedRack)
    ELSE IF HasTile(ctx.board, x, y)
    THEN /\ TileAt(ctx.board, x, y).letter \in DOMAIN ctx.letterToIndex
         /\ Append(node, ctx.letterToIndex[TileAt(ctx.board, x, y).letter]) \in ctx.root.nodes
         /\ extendDown(ctx, counts, x, y + 1,
                       Append(node, ctx.letterToIndex[TileAt(ctx.board, x, y).letter]),
                       wordLen + 1, blanks, usedRack, anchorY)
    ELSE \/ y /= anchorY /\ WordEnds(ctx, node, wordLen, usedRack)
         \/ \E idx \in Children(ctx.root, node) :
               /\ idx \in ctx.mask[<<x, y>>]
               /\ IF counts[idx] > 0
                  THEN extendDown(ctx, [counts EXCEPT ![idx] = @ - 1], x, y + 1,
                                  Append(node, idx), wordLen + 1, blanks, TRUE, anchorY)
                  ELSE /\ blanks > 0
                       /\ extendDown(ctx, counts, x, y + 1, Append(node, idx),
                                     wordLen + 1, blanks - 1, TRUE, anchorY)

\* fillUp, line 441-445.
fillUpDone(ctx, counts, x, afterFixed, blanks, fixedAfter, anchorY, lenSoFar) ==
    /\ ~afterFixed.isNull
    /\ extendDown(ctx, counts, x, anchorY, afterFixed.node, lenSoFar + Len(fixedAfter),
                  blanks, FALSE, anchorY)

RECURSIVE fillUp(_, _, _, _, _, _, _, _, _, _)
fillUp(ctx, counts, y, endYExclusive, x, node, blanks, fixedAfter, anchorY, lenSoFar) ==
    IF y = endYExclusive
    THEN fillUpDone(ctx, counts, x, traverseFixedPrefix(ctx.root, node, fixedAfter),
                    blanks, fixedAfter, anchorY, lenSoFar)
    ELSE \E idx \in Children(ctx.root, node) :
            /\ idx \in ctx.mask[<<x, y>>]
            /\ IF counts[idx] > 0
               THEN fillUp(ctx, [counts EXCEPT ![idx] = @ - 1], y + 1, endYExclusive, x,
                           Append(node, idx), blanks, fixedAfter, anchorY, lenSoFar + 1)
               ELSE /\ blanks > 0
                    /\ fillUp(ctx, counts, y + 1, endYExclusive, x, Append(node, idx),
                              blanks - 1, fixedAfter, anchorY, lenSoFar + 1)

\* hasAnyMoveCol, lines 463-481, for one anchor whose fixed prefix is `fixed`.
colAnchorHasMove(ctx, rc, anchor, fixed) ==
    /\ ~fixed.isNull
    /\ \E usedUp \in 0..EmptyRun(ctx.board, anchor[1], fixed.startY - 1, 0, 0 - 1) :
          /\ ~(inBounds(fixed.startY - usedUp - 1)
                 /\ HasTile(ctx.board, anchor[1], fixed.startY - usedUp - 1))
          /\ fillUp(ctx, rc.counts, fixed.startY - usedUp, fixed.startY, anchor[1],
                    <<>>, rc.blanks, fixed.letters, anchor[2], 0)

hasAnyMoveCol(s, playerId, anchors, boardIsEmpty, root, letterToIndex, crossMasksCol, alphabetLen, minLength) ==
    IF Len(IF playerId \in DOMAIN s.racks THEN s.racks[playerId] ELSE <<>>) = 0 THEN FALSE
    ELSE \E anchor \in anchors :
            colAnchorHasMove(ScanContext(s.board, root, letterToIndex, crossMasksCol, minLength),
                             rackCountsForPlayer(s, playerId, letterToIndex, alphabetLen),
                             anchor,
                             fixedPrefixBeforeAnchor(s.board, anchor, "col", letterToIndex))

\* Mutant of hasAnyValidMoveFast: only the row orientation is tried.
hasAnyValidMoveFast_RowOnly(s, playerId, anchors, boardIsEmpty, root, letterToIndex, crossMasks, alphabetLen, minLength) ==
    hasAnyMoveRow(s, playerId, anchors, boardIsEmpty, root, letterToIndex, crossMasks.row,
                  alphabetLen, minLength)

hasAnyValidMoveFast(s, playerId, anchors, boardIsEmpty, root, letterToIndex, crossMasks, alphabetLen, minLength) ==
    IF hasAnyMoveRow(s, playerId, anchors, boardIsEmpty, root, letterToIndex,
                     crossMasks.row, alphabetLen, minLength) THEN TRUE
    ELSE IF hasAnyMoveCol(s, playerId, anchors, boardIsEmpty, root, letterToIndex,
                          crossMasks.col, alphabetLen, minLength) THEN TRUE
    ELSE FALSE

\* The call as runScan (lines 527-554) and the scanner's tests set it up.
scanPlayer(s, playerId, alphabet, letterToIndex, wordSet, minLength) ==
    hasAnyValidMoveFast(s, playerId, computeAnchors(s.board), ~boardHasAnyTiles(s.board),
                        buildTrie(wordSet, letterToIndex), letterToIndex,
                        computeCrossMasks(s.board, alphabet, letterToIndex, wordSet, minLength),
                        Len(alphabet), minLength)

\* ---------------------------------------------------------- scanner spec
\* The scanner applied to small boards, racks, word sets and minimum lengths.
ScanBoards ==
    { createBoard,
      (<<7, 7>> :> FixtureTile(1, "H", 4)),
      (<<6, 7>> :> FixtureTile(1, "H", 4)) @@ (<<7, 6>> :> FixtureTile(2, "A", 1))
          @@ (<<7, 8>> :> FixtureTile(3, "T", 1)),
      (<<7, 7>> :> FixtureTile(1, "H", 4)) @@ (<<8, 7>> :> FixtureTile(2, "A", 1)),
      (<<6, 7>> :> FixtureTile(1, "H", 4)) @@ (<<8, 7>> :> FixtureTile(2, "T", 1)),
      (<<14, 14>> :> FixtureTile(1, "A", 1)),
      (<<0, 0>> :> FixtureTile(1, "I", 1)) }

ScanRacks ==
    { <<FixtureTile(11, "H", 4), FixtureTile(12, "I", 1)>>,
      <<FixtureTile(11, "A", 1)>>,
      <<FixtureTile(11, "I", 1)>>,
      <<FixtureBlank(11)>>,
      <<FixtureTile(11, "I", 1), FixtureBlank(12)>>,
      <<FixtureBlank(11), FixtureBlank(12)>>,
      <<>> }

ScanWordSets ==
    { { <<"H", "I">> },
      { <<"A">> },
      { <<"H", "I">>, <<"A", "I", "T">> },
      { <<"H", "A">>, <<"H", "I">>, <<"I", "T">>, <<"A", "T">>, <<"H", "I", "T">>,
        <<"A", "H">> },
      { <<"T", "H", "A", "T">>, <<"I">> },
      { <<"H", "A">> } }

ScanMinLengths == 1..3

ScanResult(playerId, wordSet, minLength, hasAny) ==
    [ran |-> TRUE, kind |-> "fast", playerId |-> playerId, wordSet |-> wordSet,
     minLength |-> minLength, hasAny |-> hasAny]

ScanInit ==
    /\ \E board \in ScanBoards : \E rack \in ScanRacks :
          state = baseState(board, [p1 |-> rack, p2 |-> <<FixtureTile(21, "T", 1)>>], <<>>)
    /\ ret = NoRet
    /\ meta = NoMeta
    /\ scan = NoScan

\* hasAnyValidMoveFast for one player, on a trie and cross masks built for the
\* call; each fixture is scanned once.
HasAnyValidMoveFast ==
    /\ ~scan.ran
    /\ \E playerId \in Range(state.players) :
       \E wordSet \in ScanWordSets :
       \E minLength \in ScanMinLengths :
       \E alphabet \in {alphabetFor(state.language)} :
          scan' = ScanResult(playerId, wordSet, minLength,
                             scanPlayer(state, playerId, alphabet,
                                        buildLetterToIndex(alphabet), wordSet, minLength))
    /\ UNCHANGED <<state, ret, meta>>

ScanNext == HasAnyValidMoveFast

ScanSpec == ScanInit /\ [][ScanNext]_vars

\* ------------------------------------------------------------- call spec
\* Engine calls with their arguments on record: scan holds the last call's
\* operation, caller and arguments.  A rejected call leaves the game as it was, so
\* the calls that follow one are those that could be made in its place.
Called(op, playerId, placements, tileIds, chk) ==
    [ran |-> TRUE, kind |-> "call", op |-> op, playerId |-> playerId,
     placements |-> placements, tileIds |-> tileIds, chk |-> chk]

\* Tiles that are not in `playerId`'s rack: the first tile of every other rack,
\* the top of the bag, the tiles of the board and a tile of no owner.
RogueTiles(s, playerId) ==
    { s.racks[q][1] : q \in { r \in DOMAIN s.racks : r /= playerId /\ Len(s.racks[r]) > 0 } }
        \cup (IF Len(s.bag) > 0 THEN { s.bag[Len(s.bag)] } ELSE {})
        \cup { s.board[c] : c \in DOMAIN s.board }
        \cup { [id |-> 999, letter |-> "O", value |-> 1, blank |-> FALSE] }

\* Three tiles of the rack and the ids of rogue tiles, alone or after a rack
\* tile, besides the shorter tileIds arguments.
CallExchangeInputs(s, playerId) ==
    ExchangeInputs(s, playerId)
        \cup (IF Len(s.racks[playerId]) >= 3
              THEN { <<s.racks[playerId][1].id, s.racks[playerId][2].id,
                       s.racks[playerId][3].id>> }
              ELSE {})
        \cup { <<t.id>> : t \in RogueTiles(s, playerId) }
        \cup (IF Len(s.racks[playerId]) >= 1
              THEN { <<s.racks[playerId][1].id, t.id>> : t \in RogueTiles(s, playerId) }
              ELSE {})

\* A rogue tile on the center, next to it or off the board, besides the
\* placements arguments of the templates.
CallPlacementInputs(s, playerId) ==
    PlacementInputs(s, playerId, OriginCells, MoveTemplates)
        \cup { << [x |-> c[1], y |-> c[2], tile |-> t] >> :
                  c \in { <<CENTER, CENTER>>, <<CENTER + 1, CENTER>>, <<BOARD_SIZE, CENTER>> },
                  t \in RogueTiles(s, playerId) }

\* The resumed games: those above and, as in the harness's refill tests, a full
\* rack on an empty board with a single tile left in the bag.
CallSnapshots ==
    EndSnapshots \cup
    { baseState(createBoard,
                [p1 |-> <<FixtureTile(11, "O", 1), FixtureTile(12, "N", 1),
                          FixtureTile(13, "M", 3), FixtureTile(14, "Q", 10),
                          FixtureTile(15, "X", 8), FixtureTile(16, "J", 8),
                          FixtureTile(17, "V", 4)>>,
                 p2 |-> <<FixtureTile(21, "K", 5), FixtureTile(22, "Q", 10),
                          FixtureTile(23, "X", 8), FixtureTile(24, "J", 8),
                          FixtureTile(25, "V", 4), FixtureTile(26, "W", 4),
                          FixtureTile(27, "G", 2)>>],
                <<FixtureTile(31, "B", 3)>>) }

CallInit ==
    /\ \/ \E cfg \in GameConfigs : state \in start(cfg[1], cfg[2])
       \/ \E snapshot \in CallSnapshots : state = resume(snapshot)
    /\ ret = NoRet
    /\ meta = NoMeta
    /\ scan = NoScan

CallPlaceMove ==
    /\ ret.success /\ state.moveNumber < MaxCalls
    /\ \E playerId \in Range(state.players) :
       \E placements \in CallPlacementInputs(state, playerId) :
       \E chk \in StartCheckers(state.language) :
          \E r \in {placeMove(state, playerId, placements, chk)} :
              /\ state' = r.state
              /\ ret' = Ret("placeMove", playerId, r.result)
              /\ scan' = Called("placeMove", playerId, placements, <<>>, chk)
    /\ UNCHANGED meta

CallPassTurn ==
    /\ ret.success /\ state.moveNumber < MaxCalls
    /\ \E playerId \in Range(state.players) :
          \E r \in {passTurn(state, playerId)} :
              /\ state' = r.state
              /\ ret' = Ret("passTurn", playerId, r.result)
              /\ scan' = Called("passTurn", playerId, <<>>, <<>>, Null)
    /\ UNCHANGED meta

CallExchangeTiles ==
    /\ ret.success /\ state.moveNumber < MaxCalls
    /\ \E playerId \in Range(state.players) :
       \E tileIds \in CallExchangeInputs(state, playerId) :
       \E r \in exchangeTiles(state, playerId, tileIds) :
          /\ state' = r.state
          /\ ret' = Ret("exchangeTiles", playerId, r.result)
          /\ scan' = Called("exchangeTiles", playerId, <<>>, tileIds, Null)
    /\ UNCHANGED meta

CallNext == CallPlaceMove \/ CallPassTurn \/ CallExchangeTiles

CallSpec == CallInit /\ [][CallNext]_vars

\* ------------------------------------------------------------ score spec
\* One placeMove on boards seeded as the scoring tests seed them, with the call's
\* arguments on record.
acceptAllWords ==
    [kind |-> "always", words |-> {}, strict |-> {}, minLength |-> 1, allWords |-> "absent"]

BoardOf(cells) == [c \in DOMAIN cells |-> FixtureTile(cells[c][1], cells[c][2], cells[c][3])]

ScoreSnapshots ==
    { \* AT with A on the TL cell (5,5)
      baseState(BoardOf((<<5, 5>> :> <<1, "A", 1>>) @@ (<<6, 5>> :> <<2, "T", 1>>)),
                [p1 |-> <<FixtureTile(11, "E", 1), FixtureTile(12, "H", 4)>>,
                 p2 |-> <<>>], <<>>),
      \* I _ E in column 5, for a cross word through (5,4)
      baseState(BoardOf((<<5, 3>> :> <<1, "I", 1>>) @@ (<<5, 5>> :> <<2, "E", 1>>)),
                [p1 |-> <<FixtureTile(11, "A", 1), FixtureTile(12, "T", 1)>>,
                 p2 |-> <<>>], <<>>),
      \* A _ T in row 5 and I _ E in column 5 around the TL cell (5,5)
      baseState(BoardOf((<<4, 5>> :> <<1, "A", 1>>) @@ (<<6, 5>> :> <<2, "T", 1>>)
                        @@ (<<5, 4>> :> <<3, "I", 1>>) @@ (<<5, 6>> :> <<4, "E", 1>>)),
                [p1 |-> <<FixtureTile(11, "H", 4)>>, p2 |-> <<>>], <<>>),
      \* C _ T in row 7 and R _ N in column 7 around the center
      baseState(BoardOf((<<6, 7>> :> <<1, "C", 3>>) @@ (<<8, 7>> :> <<2, "T", 1>>)
                        @@ (<<7, 6>> :> <<3, "R", 1>>) @@ (<<7, 8>> :> <<4, "N", 1>>)),
                [p1 |-> <<FixtureTile(11, "A", 1)>>, p2 |-> <<>>], <<>>),
      \* A to the left of (5,5) and I, T above it: the column word is the longer one
      baseState(BoardOf((<<4, 5>> :> <<1, "A", 1>>) @@ (<<5, 3>> :> <<2, "I", 1>>)
                        @@ (<<5, 4>> :> <<3, "T", 1>>)),
                [p1 |-> <<FixtureTile(11, "H", 4)>>, p2 |-> <<>>], <<>>),
      \* an empty board and a full rack
      baseState(createBoard,
                [p1 |-> <<FixtureTile(11, "A", 1), FixtureTile(12, "B", 3),
                          FixtureTile(13, "C", 3), FixtureTile(14, "D", 2),
                          FixtureTile(15, "E", 1), FixtureTile(16, "F", 4),
                          FixtureBlank(17)>>,
                 p2 |-> <<>>], <<FixtureTile(31, "Q", 10)>>),
      \* a tile on the center and a full rack
      baseState(BoardOf(<<7, 7>> :> <<1, "O", 1>>),
                [p1 |-> <<FixtureTile(11, "A", 1), FixtureTile(12, "B", 3),
                          FixtureTile(13, "C", 3), FixtureTile(14, "D", 2),
                          FixtureTile(15, "E", 1), FixtureTile(16, "F", 4),
                          FixtureTile(17, "G", 2)>>,
                 p2 |-> <<>>], <<FixtureTile(31, "Q", 10)>>) }

ScoreCheckers ==
    { acceptAllWords,
      PlainChecker("en", 1, "absent"),
      [PlainChecker("en", 1, "absent") EXCEPT
          !.words = { <<"C", "A", "T">>, <<"R", "A", "N">>, <<"A", "T", "E">> }],
      buildWordChecker("en", 2, TRUE) }

ScoreOriginCells ==
    { <<7, 5>>, <<4, 4>>, <<5, 4>>, <<5, 5>>, <<4, 5>>, <<7, 7>>, <<4, 7>>, <<1, 7>>,
      <<0, 7>>, <<7, 1>>, <<7, 8>>, <<1, 8>>, <<8, 7>>, <<8, 1>> }

Line(n, dx, dy) == [i \in 1..n |-> <<(i - 1) * dx, (i - 1) * dy>>]

ScoreTemplates ==
    { <<Line(1, 1, 0), <<1>> >>, <<Line(1, 1, 0), <<2>> >>,
      <<Line(2, 1, 0), <<1, 2>> >>, <<Line(2, 0, 1), <<1, 2>> >>,
      <<Line(2, 0, 0), <<1, 2>> >>,
      <<Line(6, 1, 0), <<1, 2, 3, 4, 5, 6>> >>,
      <<Line(7, 1, 0), <<1, 2, 3, 4, 5, 6, 7>> >>,
      <<Line(7, 0, 1), <<1, 2, 3, 4, 5, 6, 7>> >>,
      <<Line(6, 1, 0) \o << <<5, 0>> >>, <<1, 2, 3, 4, 5, 6, 7>> >> }

ScoreInit ==
    /\ \E snapshot \in ScoreSnapshots : state = resume(snapshot)
    /\ ret = NoRet
    /\ meta = NoMeta
    /\ scan = NoScan

ScorePlaceMove ==
    /\ ~scan.ran
    /\ \E playerId \in Range(state.players) :
       \E placements \in PlacementInputs(state, playerId, ScoreOriginCells, ScoreTemplates) :
       \E chk \in ScoreCheckers :
          \E r \in {placeMove(state, playerId, placements, chk)} :
              /\ state' = r.state
              /\ ret' = Ret("placeMove", playerId, r.result)
              /\ scan' = Called("placeMove", playerId, placements, <<>>, chk)
    /\ UNCHANGED meta

ScoreNext == ScorePlaceMove

ScoreSpec == ScoreInit /\ [][ScoreNext]_vars

\* ------------------------------------------------------------- properties
TotalTiles(s) ==
    Len(s.bag) + Cardinality(DOMAIN s.board)
        + SumSeq([i \in 1..Len(s.players) |-> Len(s.racks[s.players[i]])])

LanguageTileCount(language) == IF language = "en" THEN 100 ELSE 104

\* C1: in every state reachable from start() by placeMove, passTurn and
\* exchangeTiles calls with any arguments, |bag| + occupied board cells + the sum
\* of the rack lengths is the language's initial tile count (100 en, 104 ru).
C1_TileConservation == TotalTiles(state) = LanguageTileCount(state.language)

\* C2: a call that returns success = false leaves board, bag, racks, scores,
\* currentPlayer, moveNumber and history (the whole GameState) as they were.
C2_RejectedLeavesState == [][ret'.success = FALSE => state' = state]_vars

\* A rejection of each operation has been returned, for a reason beyond the turn.
C2_Witness ==
    /\ ~ret.success
    /\ state.moveNumber > 0
    /\ \/ ret.op = "placeMove" /\ ret.message = "Tile not in rack"
       \/ ret.op = "placeMove" /\ ret.message = "Invalid word"
       \/ ret.op = "exchangeTiles" /\ ret.message = "Tile not in rack"

HistoryType(op) ==
    IF op = "placeMove" THEN "MOVE" ELSE IF op = "passTurn" THEN "PASS" ELSE "EXCHANGE"

CyclicNext(players, current) ==
    LET i == CHOOSE k \in 1..Len(players) : players[k] = current
    IN  IF i = Len(players) THEN players[1] ELSE players[i + 1]

\* C3: a call succeeds only for playerId = currentPlayer and otherwise fails with
\* "Not your turn"; a successful call hands the turn to the next player in cyclic
\* order and appends exactly one history entry of the call's type for the caller.
C3_TurnDiscipline ==
    [][ /\ ret'.success => ret'.playerId = state.currentPlayer
        /\ ret'.playerId /= state.currentPlayer =>
              ~ret'.success /\ ret'.message = "Not your turn"
        /\ ret'.success =>
              /\ state'.currentPlayer = CyclicNext(state.players, state.currentPlayer)
              /\ Len(state'.history) = Len(state.history) + 1
              /\ SubSeq(state'.history, 1, Len(state.history)) = state.history
              /\ state'.history[Len(state'.history)].type = HistoryType(ret'.op)
              /\ state'.history[Len(state'.history)].playerId = ret'.playerId ]_vars

\* A move, a pass and an exchange have succeeded in a two-player game, and the turn
\* is back with the first player.
C3_Witness ==
    /\ ret.success
    /\ Len(state.players) = 2
    /\ state.currentPlayer = state.players[1]
    /\ Len(state.history) >= 2
    /\ \E i \in 1..Len(state.history) : state.history[i].type = "MOVE"
    /\ \E i \in 1..Len(state.history) : state.history[i].type = "EXCHANGE"

\* The last four entries of `history` are passes alternating between two players.
LastFourAlternatingPasses(history, players) ==
    /\ Len(history) >= 4
    /\ LET n == Len(history)
       IN  /\ \A i \in (n - 3)..n : history[i].type = "PASS"
           /\ history[n - 3].playerId = history[n - 1].playerId
           /\ history[n - 2].playerId = history[n].playerId
           /\ {history[n - 1].playerId, history[n].playerId} = Range(players)

\* C5: in a two-player game the passTurn call that makes the last four history
\* entries alternating passes returns gameEnded 'four_passes', and finalScores and
\* state.scores are the scores before the call minus each player's own rack value.
C5_FourPassTermination ==
    [][ ( /\ ret'.op = "passTurn" /\ ret'.success
          /\ Len(state.players) = 2
          /\ LastFourAlternatingPasses(state'.history, state.players) )
        => /\ ret'.gameEnded.reason = "four_passes"
           /\ ret'.gameEnded.finalScores = state'.scores
           /\ \A p \in Range(state.players) :
                 state'.scores[p] = state.scores[p] - RackValue(state.racks[p]) ]_vars

\* Four passes have ended a game in which a word was played before.
C5_Witness ==
    /\ ret.op = "passTurn"
    /\ ret.gameEnded.reason = "four_passes"
    /\ DOMAIN state.board /= {}
    /\ \E p \in Range(state.players) : state.scores[p] + RackValue(state.racks[p]) > 0

\* The engine's own answer to "can nobody move", with the full word set.
NobodyHasValidMoves(s, chk) ==
    \A p \in Range(s.players) : ~hasValidMoves(s, p, chk)

\* C6 as stated: every successful placeMove, passTurn and exchangeTiles that leaves
\* the bag empty and no player with a legal move returns a gameEnded payload.
C6_EveryActionChecksEnd ==
    [][ ( /\ ret'.success /\ state' /= state
          /\ ret'.op \in {"placeMove", "passTurn", "exchangeTiles"}
          /\ ret'.op = "placeMove" => scan'.chk.allWords = "full"
          /\ Len(state'.bag) = 0
          /\ NobodyHasValidMoves(state', buildWordChecker(state.language, 2, TRUE)) )
        => ret'.gameEnded.reason /= "none" ]_vars

\* C6, amended: a successful placeMove evaluates both end conditions on the state
\* after the move; a successful passTurn evaluates only the four-pass condition; a
\* successful exchangeTiles evaluates neither and never returns gameEnded.
C6_OnlyPlaceMoveChecksBoth ==
    [][ (ret'.success /\ state' /= state) =>
        LET fourPasses == Len(state.players) = 2
                            /\ LastFourAlternatingPasses(state'.history, state.players)
        IN  /\ ret'.op = "placeMove" =>
                ret'.gameEnded.reason =
                    IF fourPasses THEN "four_passes"
                    ELSE IF Len(state'.bag) = 0 /\ NobodyHasValidMoves(state', scan'.chk)
                         THEN "no_moves_bag_empty"
                    ELSE "none"
            /\ ret'.op = "passTurn" =>
                ret'.gameEnded.reason = IF fourPasses THEN "four_passes" ELSE "none"
            /\ ret'.op = "exchangeTiles" => ret'.gameEnded.reason = "none" ]_vars

\* A pass has succeeded with the bag empty and nobody able to move, and returned no
\* gameEnded payload.
C6_Witness ==
    /\ ret.op = "passTurn" /\ ret.success
    /\ ret.gameEnded.reason = "none"
    /\ Len(state.bag) = 0
    /\ NobodyHasValidMoves(state, buildWordChecker(state.language, 2, TRUE))

\* Placements of at most MaxPlaced rack tiles are enumerated as the reference.
MaxPlaced == 2

ChebyshevNear(c, t, n) ==
    /\ c[1] - t[1] \in (0 - n)..n
    /\ c[2] - t[2] \in (0 - n)..n

\* The empty cells within MaxPlaced cells, in any direction, of a tile of the
\* board (of the center on an empty board): tiles placed in a line, touching the
\* board's tiles, with only tiles between them, lie there.
CandidateCells(board) ==
    LET seeds == IF DOMAIN board = {} THEN { <<CENTER, CENTER>> } ELSE DOMAIN board
    IN  { c \in AllCells :
            ~HasTile(board, c[1], c[2]) /\ \E t \in seeds : ChebyshevNear(c, t, MaxPlaced) }

LettersOf(words) == UNION { Range(w) : w \in words }

\* A rack tile as a caller can place it: as it is, or a blank with a letter chosen.
TileAsPlaced(tile, letters) ==
    IF tile.blank THEN {tile} \cup {[tile EXCEPT !.letter = l] : l \in letters}
    ELSE {tile}

PlacementAt(c, tile) == [x |-> c[1], y |-> c[2], tile |-> tile]

\* Some placement of one rack tile, or of two in either order, on candidate cells
\* (the same cell twice included) satisfies Accepts.
ExistsPlacement(s, playerId, letters, Accepts(_)) ==
    LET rack == s.racks[playerId]
        cells == CandidateCells(s.board)
    IN  \/ \E i \in 1..Len(rack) : \E c \in cells :
           \E t \in TileAsPlaced(rack[i], letters) :
              Accepts(<<PlacementAt(c, t)>>)
        \/ \E i \in 1..Len(rack) : \E j \in (1..Len(rack)) \ {i} :
           \E c \in cells : \E d \in cells :
           \E t \in TileAsPlaced(rack[i], letters) : \E u \in TileAsPlaced(rack[j], letters) :
              Accepts(<<PlacementAt(c, t), PlacementAt(d, u)>>)

\* playerId has a placement of rack tiles that placeMove accepts on their turn.
CanPlace(s, playerId, chk) ==
    LET Accepts(placements) ==
            placeMove([s EXCEPT !.currentPlayer = playerId], playerId, placements,
                      chk).result.success
    IN  ExistsPlacement(s, playerId, LettersOf(chk.words), Accepts)

\* C7: an end check (checkGameEnd, or the one inside placeMove) answers
\* 'no_moves_bag_empty' only when the bag is empty and no player has a placement of
\* rack tiles that placeMove accepts with the same checker; and with an empty bag
\* and the full word set it ends the game whenever no player has such a placement.
C7_NoFalseNoMoves ==
    scan.ran =>
        /\ scan.reason = "no_moves_bag_empty" =>
                /\ Len(state.bag) = 0
                /\ \A p \in Range(state.players) : ~CanPlace(state, p, scan.chk)
        /\ ( /\ Len(state.bag) = 0 /\ scan.chk.allWords = "full"
             /\ \A p \in Range(state.players) : ~CanPlace(state, p, scan.chk) )
           => scan.reason \in {"no_moves_bag_empty", "four_passes"}

\* C8: with a word checker whose getAllWords is absent or yields null, neither
\* checkGameEnd nor the end check inside placeMove answers 'no_moves_bag_empty'.
C8_NoWordSetNoEnding ==
    (scan.ran /\ scan.chk.allWords \in {"absent", "null"})
        => scan.reason /= "no_moves_bag_empty" /\ ret.gameEnded.reason /= "no_moves_bag_empty"

\* A placeMove has succeeded under a checker without getAllWords, leaving the bag
\* empty and no player with a move the full word set would find.
C8_Witness ==
    /\ ret.op = "placeMove" /\ ret.success
    /\ scan.ran /\ scan.chk.allWords = "absent"
    /\ Len(state.bag) = 0
    /\ checkAllPlayersHaveNoValidMoves(state, [scan.chk EXCEPT !.allWords = "full"])

\* C4: once the session has recorded gameOver (an action returned a gameEnded
\* payload, or checkAndHandleGameEnd applied the final scoring), no later step, a
\* further pass, a timer auto-pass or another end check, reduces a score again.
C4_FinalScoringOnce ==
    [][ meta.gameOver.set =>
            \A p \in Range(state.players) : state'.scores[p] >= state.scores[p] ]_vars

\* C10: once gameOver is recorded the host makes no further placeMove, passTurn or
\* exchangeTiles call: the engine state and the last engine result stay as they are.
C10_EndedIsTerminal ==
    [][ meta.gameOver.set => state' = state /\ ret' = ret ]_vars

\* A word checker that is membership in wordSet of words of at least minLength letters.
MembershipChecker(wordSet, minLength) ==
    [kind |-> "plain", words |-> wordSet, strict |-> {}, minLength |-> minLength,
     allWords |-> "full"]

\* playerId has a non-empty placement of rack tiles, blanks lettered at will, that
\* validateMoveOnState accepts under the membership checker.
ValidPlacementExists(s, playerId, wordSet, minLength) ==
    LET Accepts(placements) ==
            validateMoveOnState(s, playerId, placements,
                                MembershipChecker(wordSet, minLength))
    IN  ExistsPlacement(s, playerId, LettersOf(wordSet) \cup {"Q"}, Accepts)

\* C9: hasAnyValidMoveFast, with anchors = computeAnchors(board), answers true iff
\* the player has a non-empty placement of rack tiles (blanks taking any letter)
\* that placeMove-style validation accepts when the checker is membership in the
\* same word set with the same minimum length.
C9_ScannerCorrect ==
    (scan.ran /\ scan.kind = "fast") =>
        (scan.hasAny <=>
            ValidPlacementExists(state, scan.playerId, scan.wordSet, scan.minLength))

\* The scanner has found a move that only the column orientation offers, for a
\* rack holding a blank on a board with tiles.
C9_Witness ==
    /\ scan.ran /\ scan.kind = "fast" /\ scan.hasAny
    /\ boardHasAnyTiles(state.board)
    /\ \E k \in 1..Len(state.racks[scan.playerId]) : state.racks[scan.playerId][k].blank
    /\ ~hasAnyValidMoveFast_RowOnly(state, scan.playerId, computeAnchors(state.board), FALSE,
            buildTrie(scan.wordSet, buildLetterToIndex(EN_ALPHABET)),
            buildLetterToIndex(EN_ALPHABET),
            computeCrossMasks(state.board, EN_ALPHABET, buildLetterToIndex(EN_ALPHABET),
                              scan.wordSet, scan.minLength),
            Len(EN_ALPHABET), scan.minLength)

\* The call on record is a placeMove made on an empty board without cell (7,7).
OffCenterOnEmptyBoard(s, call) ==
    /\ call.op = "placeMove"
    /\ ~boardHasAnyTiles(s.board)
    /\ \A i \in 1..Len(call.placements) :
          ~(call.placements[i].x = 7 /\ call.placements[i].y = 7)

\* The placements lie in one row or in one column.
InOneLine(placements) ==
    \/ \A i \in 1..Len(placements) : placements[i].y = placements[1].y
    \/ \A i \in 1..Len(placements) : placements[i].x = placements[1].x

\* The tiles of the placements can be taken from the rack, each rack tile once.
TilesFromRack(rack, placements) ==
    \E f \in [1..Len(placements) -> 1..Len(rack)] :
        /\ \A i \in 1..Len(placements) : rack[f[i]].id = placements[i].tile.id
        /\ \A i \in 1..Len(placements) : \A j \in 1..Len(placements) :
              i /= j => f[i] /= f[j]

\* C11 as stated: on an empty board every placeMove whose placements do not
\* include (7,7) is rejected with 'First move must cover center'.
C11_OffCenterAlwaysThatMessage ==
    [][ OffCenterOnEmptyBoard(state, scan') =>
            ~ret'.success /\ ret'.message = "First move must cover center" ]_vars

\* C11, amended: on an empty board, whatever moveNumber is, a placeMove whose
\* placements do not include (7,7) is rejected and leaves the game as it was; the
\* message is 'First move must cover center' when the call is by the player to
\* move, with at least one placement, all in bounds, of tiles from the rack, in one
\* row or column, and otherwise the message of the earlier check that failed; no
\* call on an empty board is rejected with 'Move must connect to existing tiles'.
C11_FirstMoveRule ==
    [][ /\ OffCenterOnEmptyBoard(state, scan') =>
            /\ ~ret'.success /\ state' = state
            /\ IF /\ scan'.playerId = state.currentPlayer
                  /\ Len(scan'.placements) > 0
                  /\ \A i \in 1..Len(scan'.placements) :
                        /\ scan'.placements[i].x \in 0..14
                        /\ scan'.placements[i].y \in 0..14
                  /\ TilesFromRack(state.racks[scan'.playerId], scan'.placements)
                  /\ InOneLine(scan'.placements)
               THEN ret'.message = "First move must cover center"
               ELSE ret'.message \in { "Not your turn", "Place at least one tile",
                                       "Placement outside board", "Tile not in rack",
                                       "Tiles must align in a row or column" }
        /\ (scan'.op = "placeMove" /\ ~boardHasAnyTiles(state.board)) =>
              ret'.message /= "Move must connect to existing tiles" ]_vars

\* After a leading pass or exchange the board is still empty and an off-center
\* placement of rack tiles has been rejected with the first-move message.
C11_Witness ==
    /\ scan.ran /\ scan.kind = "call" /\ scan.op = "placeMove"
    /\ state.moveNumber >= 1
    /\ ~boardHasAnyTiles(state.board)
    /\ Len(scan.placements) = 2
    /\ ret.message = "First move must cover center"

\* The occupied cells reachable from `seen` through 4-adjacent occupied cells.
RECURSIVE ConnectedFrom(_, _)
ConnectedFrom(cells, seen) ==
    LET more == { c \in cells \ seen :
                    \E d \in seen : (c[1] = d[1] /\ c[2] - d[2] \in {-1, 1})
                                    \/ (c[2] = d[2] /\ c[1] - d[1] \in {-1, 1}) }
    IN  IF more = {} THEN seen ELSE ConnectedFrom(cells, seen \cup more)

\* A non-empty board has (7,7) occupied and is one 4-connected group.
BoardIsConnected(board) ==
    DOMAIN board /= {} =>
        /\ <<7, 7>> \in DOMAIN board
        /\ ConnectedFrom(DOMAIN board, { <<7, 7>> }) = DOMAIN board

\* The cells of `placed` lie in one row or column, every cell from the first to the
\* last of them is occupied on `after`, and if `before` held tiles one of the placed
\* cells is 4-adjacent to a cell occupied on `before`.
PlacedInLineAndTouching(before, after, placed) ==
    LET xs == { placed[i][1] : i \in 1..Len(placed) }
        ys == { placed[i][2] : i \in 1..Len(placed) }
    IN  /\ Cardinality(xs) = 1 \/ Cardinality(ys) = 1
        /\ \A x \in 0..14 : \A y \in 0..14 :
              ( /\ \E a \in xs : a <= x /\ \E b \in xs : x <= b
                /\ \E a \in ys : a <= y /\ \E b \in ys : y <= b )
              => <<x, y>> \in DOMAIN after
        /\ DOMAIN before /= {} =>
              \E i \in 1..Len(placed) :
                 \E d \in DOMAIN before :
                    \/ d[1] = placed[i][1] /\ d[2] - placed[i][2] \in {-1, 1}
                    \/ d[2] = placed[i][2] /\ d[1] - placed[i][1] \in {-1, 1}

\* C12: in every state reached from start(), a non-empty board has (7,7) occupied
\* and its occupied cells form one 4-connected group; and every successful
\* placeMove puts its tiles in one row or column, leaves no empty cell between its
\* first and last tile, and on a non-empty board touches a tile that was there.
C12_BoardConnectivity ==
    /\ [] BoardIsConnected(state.board)
    /\ [][ (ret'.op = "placeMove" /\ ret'.success /\ state' /= state) =>
              PlacedInLineAndTouching(state.board, state'.board, state'.lastMove.placed)
       ]_vars

\* Two moves have been played and the second added tiles next to the first's.
C12_Witness ==
    /\ Cardinality(DOMAIN state.board) >= 3
    /\ \E i \in 1..Len(state.history) : \E j \in 1..Len(state.history) :
          i /= j /\ state.history[i].type = "MOVE" /\ state.history[j].type = "MOVE"

\* ---- the words a move forms, read off the board the move would leave
PlacedCells(placements) == { <<placements[i].x, placements[i].y>> : i \in 1..Len(placements) }

\* The tile on cell c once the placements are laid (the last one laid on c stays).
TileOn(board, placements, c) ==
    IF c \in PlacedCells(placements)
    THEN placements[CHOOSE i \in 1..Len(placements) :
                        /\ <<placements[i].x, placements[i].y>> = c
                        /\ \A j \in (i + 1)..Len(placements) :
                              <<placements[j].x, placements[j].y>> /= c].tile
    ELSE board[c]

\* The maximal run of occupied cells through c along dir, as [dir, cells].
RunThrough(occupied, c, dir) ==
    [dir |-> dir,
     cells |-> IF dir = "row"
               THEN { d \in occupied : d[2] = c[2] /\
                        \A x \in Min2(c[1], d[1])..Max2(c[1], d[1]) : <<x, c[2]>> \in occupied }
               ELSE { d \in occupied : d[1] = c[1] /\
                        \A y \in Min2(c[2], d[2])..Max2(c[2], d[2]) : <<c[1], y>> \in occupied }]

\* The runs through the placed cells, in both directions.
RunsThroughPlaced(board, placements) ==
    { RunThrough(DOMAIN board \cup PlacedCells(placements), c, dir) :
        c \in PlacedCells(placements), dir \in {"row", "col"} }

\* The letters of a run, left to right or top to bottom.
RunWord(board, placements, run) ==
    LET first == CHOOSE c \in run.cells : \A d \in run.cells : c[1] <= d[1] /\ c[2] <= d[2]
    IN  [i \in 1..Cardinality(run.cells) |->
            TileOn(board, placements,
                   IF run.dir = "row" THEN <<first[1] + i - 1, first[2]>>
                   ELSE <<first[1], first[2] + i - 1>>).letter]

EarlierRejections ==
    { "Not your turn", "Place at least one tile", "Placement outside board",
      "Tile not in rack", "Cell already occupied", "Tiles must align in a row or column",
      "First move must cover center", "Move must connect to existing tiles",
      "Tiles must form a contiguous line" }

\* C13: a placeMove succeeds only if the checker accepts every word of more than
\* one letter that runs through a newly placed tile, in either direction; if the
\* checker rejects one of them the call fails, with 'Invalid word' naming a word
\* through a placed tile that the checker rejects unless an earlier check failed;
\* and a call failing with 'Invalid word' leaves the game as it was.
C13_DictionaryCheck ==
    [][ scan'.op = "placeMove" =>
        LET pl == scan'.placements
            runs == { r \in RunsThroughPlaced(state.board, pl) : Cardinality(r.cells) > 1 }
            rejected == { r \in RunsThroughPlaced(state.board, pl) :
                            ~checkWord(scan'.chk, RunWord(state.board, pl, r),
                                       state.language) }
        IN  /\ ret'.success => runs \cap rejected = {}
            /\ (ret'.message \notin EarlierRejections /\ runs \cap rejected /= {}) =>
                  ~ret'.success
            /\ (runs \cap rejected /= {}) =>
                  ~ret'.success /\ ret'.message \in EarlierRejections \cup {"Invalid word"}
            /\ ret'.message = "Invalid word" =>
                  /\ state' = state
                  /\ \E r \in rejected : RunWord(state.board, pl, r) = ret'.badWord ]_vars

\* A single tile completed two words at once; the checker accepted the one along
\* the row and rejected the crossing one, and the move failed naming that word.
C13_Witness ==
    /\ scan.ran /\ scan.kind = "call" /\ scan.op = "placeMove"
    /\ ret.message = "Invalid word"
    /\ Len(scan.placements) = 1
    /\ ret.badWord = <<"R", "A", "N">>
    /\ checkWord(scan.chk, <<"C", "A", "T">>, state.language)

\* The cells of a run in order, left to right or top to bottom.
RunSeq(run) ==
    LET first == CHOOSE c \in run.cells : \A d \in run.cells : c[1] <= d[1] /\ c[2] <= d[2]
    IN  [i \in 1..Cardinality(run.cells) |->
            IF run.dir = "row" THEN <<first[1] + i - 1, first[2]>>
            ELSE <<first[1], first[2] + i - 1>>]

LetterFactor(premium) == IF premium = "DL" THEN 2 ELSE IF premium = "TL" THEN 3 ELSE 1
WordFactor(premium) ==
    IF premium \in {"DW", "CENTER"} THEN 2 ELSE IF premium = "TW" THEN 3 ELSE 1

\* The score of one word as C14 states it: tile values, a newly placed tile doubled
\* on DL and tripled on TL, times the word multipliers under the newly placed tiles
\* of this word.
WordScoreOf(board, placements, run) ==
    LET cells == RunSeq(run)
        new(c) == c \in PlacedCells(placements)
    IN  SumSeq([i \in 1..Len(cells) |->
                  TileOn(board, placements, cells[i]).value
                    * (IF new(cells[i]) THEN LetterFactor(premiumMap(cells[i][1], cells[i][2]))
                       ELSE 1)])
        * ProductSeq([i \in 1..Len(cells) |->
                        IF new(cells[i]) THEN WordFactor(premiumMap(cells[i][1], cells[i][2]))
                        ELSE 1])

\* The totals the returned words can add up to, each word scored as a run through
\* a placed tile that spells it.
RECURSIVE WordScoreSums(_, _, _, _)
WordScoreSums(board, placements, words, i) ==
    IF i > Len(words) THEN {0}
    ELSE { WordScoreOf(board, placements, r) + rest :
             r \in { q \in RunsThroughPlaced(board, placements) :
                       RunWord(board, placements, q) = words[i] },
             rest \in WordScoreSums(board, placements, words, i + 1) }

\* C14: the scoreDelta of a successful move is the sum, over the words it returns,
\* of each word's score computed from that word's own cells only (premiums count
\* under newly placed tiles only), plus nothing or the 50-point bonus.
C14_PerWordPremiums ==
    [][ (scan'.op = "placeMove" /\ ret'.success) =>
            \E total \in WordScoreSums(state.board, scan'.placements, ret'.words, 1) :
                ret'.scoreDelta - total \in {0, 50} ]_vars

\* A move has scored a word through a DW cell it covered and a cross word through a
\* tile that was on the board: 4 for AT and 3 for ITE.
C14_Witness ==
    /\ scan.ran /\ scan.kind = "call" /\ scan.op = "placeMove" /\ ret.success
    /\ Len(scan.placements) = 2
    /\ Len(ret.words) = 2
    /\ \E i \in 1..2 : scan.placements[i].x = 4 /\ scan.placements[i].y = 4
    /\ ret.scoreDelta = 7

\* The words from index i on can each be given a run through a placed tile that
\* spells it, no run given twice (nor one of `used`).
RECURSIVE DistinctRunsFor(_, _, _, _, _)
DistinctRunsFor(board, placements, words, i, used) ==
    \/ i > Len(words)
    \/ \E r \in { q \in RunsThroughPlaced(board, placements) \ used :
                    RunWord(board, placements, q) = words[i] } :
          DistinctRunsFor(board, placements, words, i + 1, used \cup {r})

\* C15: the words a successful move returns are distinct words of the board, each
\* identified by its orientation and cells: no word of the move is listed, and so
\* validated and scored, twice.
C15_EachWordOnce ==
    [][ (scan'.op = "placeMove" /\ ret'.success) =>
            DistinctRunsFor(state.board, scan'.placements, ret'.words, 1, {}) ]_vars

IdsIn(tiles) == { tiles[i].id : i \in 1..Len(tiles) }

ExchangeSucceeded(call, result) == call.ran /\ call.op = "exchangeTiles" /\ result.success

\* C17: after a successful exchangeTiles(player, ids) none of the exchanged ids
\* is in that player's rack and all of them are in the bag.
C17_ExchangedTilesLeaveRack ==
    [][ ExchangeSucceeded(scan', ret') =>
            \A i \in 1..Len(scan'.tileIds) :
                /\ scan'.tileIds[i] \notin IdsIn(state'.racks[scan'.playerId])
                /\ scan'.tileIds[i] \in IdsIn(state'.bag) ]_vars

\* An exchange of two tiles has succeeded with more than two tiles in the bag.
C17_Witness ==
    /\ ExchangeSucceeded(scan, ret)
    /\ Len(scan.tileIds) = 2
    /\ Len(state.bag) > 2
    /\ IdsIn(state.racks[scan.playerId]) \cap IdsIn(state.bag) = {}

\* C18: a successful exchangeTiles leaves the player's rack length and the bag
\* length as they were, leaves the board, the scores and every other rack
\* unchanged, and the resulting rack holds no tile id twice.
C18_ExchangeKeepsCounts ==
    [][ ExchangeSucceeded(scan', ret') =>
            /\ Len(state'.racks[scan'.playerId]) = Len(state.racks[scan'.playerId])
            /\ Len(state'.bag) = Len(state.bag)
            /\ state'.board = state.board
            /\ state'.scores = state.scores
            /\ \A p \in Range(state.players) \ {scan'.playerId} :
                    state'.racks[p] = state.racks[p]
            /\ Cardinality(IdsIn(state'.racks[scan'.playerId]))
                    = Len(state'.racks[scan'.playerId]) ]_vars

\* Three tiles of a full rack have been exchanged and the rack is full again.
C18_Witness ==
    /\ ExchangeSucceeded(scan, ret)
    /\ Len(scan.tileIds) = 3
    /\ Len(state.racks[scan.playerId]) = RACK_SIZE
    /\ Len(state.bag) >= 3

\* The reasons the claim gives for rejecting exchangeTiles(playerId, tileIds).
ExchangeFaults(s, playerId, tileIds) ==
    (IF tileIds = <<>> THEN {"Choose tiles to exchange"} ELSE {})
    \cup (IF Len(s.bag) < Len(tileIds) THEN {"Not enough tiles in bag"} ELSE {})
    \cup (IF \E i \in 1..Len(tileIds) : tileIds[i] \notin IdsIn(s.racks[playerId])
          THEN {"Tile not in rack"} ELSE {})

\* C19: an exchangeTiles call with no tile ids, with more ids than the bag holds
\* tiles, or with an id that is not in the player's rack is rejected and leaves
\* the state, so the turn, as it was; from the player to move the message is the
\* one of a reason that applies; and no exchange succeeds on an empty bag.
C19_ExchangeRejections ==
    [][ (scan'.ran /\ scan'.op = "exchangeTiles") =>
            /\ ExchangeFaults(state, scan'.playerId, scan'.tileIds) /= {} =>
                  /\ ~ret'.success
                  /\ state' = state
                  /\ state.currentPlayer = scan'.playerId =>
                        ret'.message \in ExchangeFaults(state, scan'.playerId, scan'.tileIds)
            /\ state.bag = <<>> => ~ret'.success ]_vars

\* The player to move has asked to exchange more tiles than the bag holds, all
\* of them from the rack, and was told so.
C19_Witness ==
    /\ scan.ran /\ scan.op = "exchangeTiles" /\ ~ret.success
    /\ scan.playerId = state.currentPlayer
    /\ scan.tileIds /= <<>>
    /\ Len(state.bag) < Len(scan.tileIds)
    /\ \A i \in 1..Len(scan.tileIds) : scan.tileIds[i] \in IdsIn(state.racks[scan.playerId])
    /\ ret.message = "Not enough tiles in bag"

\* The number of tiles a successful call used: placed or exchanged.
UsedTiles(call) == IF call.op = "placeMove" THEN Len(call.placements) ELSE Len(call.tileIds)

\* C20: after a successful placeMove or exchangeTiles the acting player's rack
\* length is min(7, previous length - used + bag size before the draw), and on a
\* placeMove the bag shrinks by exactly the number of tiles drawn.
C20_RackReplenishment ==
    [][ (scan'.ran /\ scan'.op \in {"placeMove", "exchangeTiles"} /\ ret'.success) =>
            /\ Len(state'.racks[scan'.playerId])
                  = Min2(RACK_SIZE, Len(state.racks[scan'.playerId]) - UsedTiles(scan')
                                        + Len(state.bag))
            /\ scan'.op = "placeMove" =>
                  Len(state.bag) - Len(state'.bag)
                      = Len(state'.racks[scan'.playerId])
                            - (Len(state.racks[scan'.playerId]) - UsedTiles(scan')) ]_vars

\* A move has placed two tiles of a full rack with fewer than two tiles left in
\* the bag: the rack is short afterwards and the bag is empty.
C20_Witness ==
    /\ scan.ran /\ scan.op = "placeMove" /\ ret.success
    /\ Len(scan.placements) = 2
    /\ Len(state.racks[scan.playerId]) < RACK_SIZE
    /\ Len(state.racks[scan.playerId]) > RACK_SIZE - 2
    /\ state.bag = <<>>

\* ------------------------------------------------------- shared objects spec
\* resume(snapshot) and what follows it, with the identity of tile objects kept:
\* structuredClone gives the engine objects of its own, and placeMove stores the
\* caller's tile object itself in the board cell (state.board[y][x].tile = p.tile).
\* `scan.snapshot` is the caller's snapshot object as it is now, and `scan.refs`
\* says which board cells of the engine hold a tile object of the snapshot:
\* refs[cell] = <<player, k>> is the k-th tile object of snapshot.racks[player].
\* `scan.changes` counts the changes the caller has made to the snapshot.
Aliased(snapshot, refs, changes) ==
    [ran |-> TRUE, kind |-> "alias", snapshot |-> snapshot, refs |-> refs, changes |-> changes]

MaxSnapshotChanges == 1

\* The tile objects of a rack the caller may write to: the first ones, which the
\* move templates pick from.
MaxChangedTile == 3

NoRefs == [c \in {} |-> <<>>]

\* The placements a caller builds from the snapshot's own rack objects.
SnapshotPlacements(snapshot, playerId) ==
    { pl \in UNION { PlacementsOf(snapshot, playerId, ot[1], ot[2]) :
                        ot \in OriginCells \X MoveTemplates } :
        \A i \in 1..Len(pl) :
            \E k \in 1..Len(snapshot.racks[playerId]) : snapshot.racks[playerId][k] = pl[i].tile }

\* The board cells the placements wrote, each with the snapshot object it now holds.
RefsAfter(refs, snapshot, playerId, placements) ==
    LET cells == { <<placements[i].x, placements[i].y>> : i \in 1..Len(placements) }
        lastAt(c) == CHOOSE i \in 1..Len(placements) :
                        /\ <<placements[i].x, placements[i].y>> = c
                        /\ \A j \in (i + 1)..Len(placements) :
                              <<placements[j].x, placements[j].y>> /= c
    IN  [c \in DOMAIN refs \cup cells |->
            IF c \in cells
            THEN <<playerId, FindIndexId(snapshot.racks[playerId], placements[lastAt(c)].tile.id, 1)>>
            ELSE refs[c]]

\* The engine's board as seen through getState() once the snapshot object
\* `changed` has new contents.
BoardSeen(board, refs, ref, changed) ==
    [c \in DOMAIN board |-> IF c \in DOMAIN refs /\ refs[c] = ref THEN changed ELSE board[c]]

AliasInit ==
    /\ \E snapshot \in CallSnapshots :
          /\ state = resume(snapshot)
          /\ scan = Aliased(snapshot, NoRefs, 0)
    /\ ret = NoRet
    /\ meta = NoMeta

\* placeMove with tile objects taken from the engine's getState() or copied.
AliasPlaceMove ==
    /\ ret.success /\ state.moveNumber < MaxCalls
    /\ \E placements \in PlacementInputs(state, state.currentPlayer, OriginCells, MoveTemplates) :
       \E chk \in StartCheckers(state.language) :
          \E r \in {placeMove(state, state.currentPlayer, placements, chk)} :
              /\ state' = r.state
              /\ ret' = Ret("placeMove", state.currentPlayer, r.result)
    /\ UNCHANGED <<meta, scan>>

\* placeMove with the tile objects of the snapshot's rack, as the scoring tests call it.
AliasPlaceSnapshotTiles ==
    /\ ret.success /\ state.moveNumber < MaxCalls
    /\ \E placements \in SnapshotPlacements(scan.snapshot, state.currentPlayer) :
       \E chk \in StartCheckers(state.language) :
          \E r \in {placeMove(state, state.currentPlayer, placements, chk)} :
              /\ state' = r.state
              /\ ret' = Ret("placeMove", state.currentPlayer, r.result)
              /\ scan' = IF r.result.success
                         THEN Aliased(scan.snapshot,
                                      RefsAfter(scan.refs, scan.snapshot,
                                                state.currentPlayer, placements),
                                      scan.changes)
                         ELSE scan
    /\ UNCHANGED meta

\* The caller writes a letter into a tile object of the snapshot.
AliasChangeSnapshotTile ==
    /\ scan.changes < MaxSnapshotChanges
    /\ \E p \in DOMAIN scan.snapshot.racks :
       \E k \in 1..Min2(MaxChangedTile, Len(scan.snapshot.racks[p])) :
          /\ scan.snapshot.racks[p][k].letter /= "Z"
          /\ \E changed \in { [scan.snapshot.racks[p][k] EXCEPT !.letter = "Z"] } :
                /\ scan' = Aliased([scan.snapshot EXCEPT !.racks[p][k] = changed], scan.refs,
                                 scan.changes + 1)
                /\ state' = [state EXCEPT !.board = BoardSeen(@, scan.refs, <<p, k>>, changed)]
    /\ UNCHANGED <<ret, meta>>

\* The caller empties a rack array of the snapshot.
AliasChangeSnapshotRack ==
    /\ scan.changes < MaxSnapshotChanges
    /\ \E p \in DOMAIN scan.snapshot.racks :
          /\ scan.snapshot.racks[p] /= <<>>
          /\ \A c \in DOMAIN scan.refs : scan.refs[c][1] /= p
          /\ scan' = Aliased([scan.snapshot EXCEPT !.racks[p] = <<>>], scan.refs,
                           scan.changes + 1)
    /\ UNCHANGED <<state, ret, meta>>

AliasNext ==
    AliasPlaceMove \/ AliasPlaceSnapshotTiles \/ AliasChangeSnapshotTile \/ AliasChangeSnapshotRack

AliasSpec == AliasInit /\ [][AliasNext]_vars

\* --------------------------------------------------------- long games spec
\* Games long enough for the history to reach its cap: the players of a solo and
\* of a three-player game pass in turn, and exchange a tile in the last turns.
MaxHistoryMoves == 253

HistoryTail == 4

HistInit ==
    /\ \E cfg \in { c \in GameConfigs : Len(c[2]) /= 2 } : state \in start(cfg[1], cfg[2])
    /\ ret = NoRet
    /\ meta = NoMeta
    /\ scan = NoScan

HistPassTurn ==
    /\ state.moveNumber < MaxHistoryMoves
    /\ \E r \in {passTurn(state, state.currentPlayer)} :
          /\ state' = r.state
          /\ ret' = Ret("passTurn", state.currentPlayer, r.result)
    /\ UNCHANGED <<meta, scan>>

HistExchangeTiles ==
    /\ state.moveNumber < MaxHistoryMoves
    /\ state.moveNumber >= MaxHistoryMoves - HistoryTail
    /\ \E r \in exchangeTiles(state, state.currentPlayer,
                             <<state.racks[state.currentPlayer][1].id>>) :
          /\ state' = r.state
          /\ ret' = Ret("exchangeTiles", state.currentPlayer, r.result)
    /\ UNCHANGED <<meta, scan>>

HistNext == HistPassTurn \/ HistExchangeTiles

HistSpec == HistInit /\ [][HistNext]_vars

\* ---------------------------------------------------------- state shape
RackBound(s) ==
    /\ \A p \in DOMAIN s.racks : Len(s.racks[p]) <= RACK_SIZE
    /\ s.bag /= <<>> => \A p \in DOMAIN s.racks : Len(s.racks[p]) = RACK_SIZE

\* C21: each rack holds at most 7 tiles and exactly 7 while the bag is not
\* empty, so a rack is short only when the bag is empty; and an empty bag stays
\* empty.
C21_RackBound ==
    /\ [] RackBound(state)
    /\ [][ state.bag = <<>> => state'.bag = <<>> ]_vars

\* A move has drawn the last tile of the bag and left its player's rack short,
\* and a call has been made on the empty bag since.
C21_Witness ==
    /\ state.bag = <<>>
    /\ Len(state.history) >= 1
    /\ state.history[1].type = "MOVE"
    /\ \E p \in DOMAIN state.racks : Len(state.racks[p]) = RACK_SIZE - 1
    /\ \E p \in DOMAIN state.racks : Len(state.racks[p]) = RACK_SIZE
    /\ scan.ran /\ scan.op = "exchangeTiles" /\ scan.tileIds /= <<>>

BoardIds(board) == { board[c].id : c \in DOMAIN board }

\* No tile id occurs twice within the bag, within a rack or on the board, and
\* none occurs in two of these places.
EachTileOnce(s) ==
    /\ Cardinality(IdsIn(s.bag)) = Len(s.bag)
    /\ \A p \in DOMAIN s.racks : Cardinality(IdsIn(s.racks[p])) = Len(s.racks[p])
    /\ Cardinality(BoardIds(s.board)) = Cardinality(DOMAIN s.board)
    /\ \A p \in DOMAIN s.racks :
          /\ IdsIn(s.racks[p]) \cap IdsIn(s.bag) = {}
          /\ IdsIn(s.racks[p]) \cap BoardIds(s.board) = {}
          /\ \A q \in DOMAIN s.racks \ {p} : IdsIn(s.racks[p]) \cap IdsIn(s.racks[q]) = {}
    /\ IdsIn(s.bag) \cap BoardIds(s.board) = {}

\* C22: in every reachable state each tile id occurs at most once across the
\* bag, all racks and all board cells combined.
C22_TileOwnership == EachTileOnce(state)

\* Tiles have moved between all three places: a move has put tiles on the board
\* and an exchange has returned tiles to the bag, in a two-player game.
C22_Witness ==
    /\ Len(state.players) = 2
    /\ DOMAIN state.board /= {}
    /\ \E i \in 1..Len(state.history) : state.history[i].type = "MOVE"
    /\ \E i \in 1..Len(state.history) : state.history[i].type = "EXCHANGE"

\* A cell that holds a tile holds that same tile in the next state.
CellsKept(before, after) ==
    \A c \in DOMAIN before : c \in DOMAIN after /\ after[c] = before[c]

\* The call was a placeMove with a placement on a cell of the board that holds a tile.
TargetsOccupied(s, call) ==
    /\ call.ran /\ call.op = "placeMove"
    /\ \E i \in 1..Len(call.placements) :
          HasTile(s.board, call.placements[i].x, call.placements[i].y)

\* The checks placeMove makes before the occupied check all pass.
ReachesOccupiedCheck(s, call) ==
    /\ s.currentPlayer = call.playerId
    /\ AllInBounds(call.placements)
    /\ TilesFromRack(s.racks[call.playerId], call.placements)

\* C23 as stated: a cell that holds a tile keeps that tile in every later state,
\* and every placeMove targeting an occupied cell is rejected with 'Cell already
\* occupied'.
C23_WriteOnceThatMessage ==
    [][ /\ CellsKept(state.board, state'.board)
        /\ TargetsOccupied(state, scan') =>
              ~ret'.success /\ ret'.message = "Cell already occupied" ]_vars

\* C23: a cell that holds a tile keeps that tile in every later state; a placeMove
\* targeting an occupied cell is rejected and changes nothing; its message is
\* 'Cell already occupied' when the caller is the player to move, the placements
\* are in bounds and the tiles are in the rack, and the message of the first of
\* those checks to fail otherwise.
C23_WriteOnce ==
    [][ /\ CellsKept(state.board, state'.board)
        /\ TargetsOccupied(state, scan') =>
              /\ ~ret'.success
              /\ state' = state
              /\ ret'.message =
                    IF state.currentPlayer /= scan'.playerId THEN "Not your turn"
                    ELSE IF ~AllInBounds(scan'.placements) THEN "Placement outside board"
                    ELSE IF ~TilesFromRack(state.racks[scan'.playerId], scan'.placements)
                         THEN "Tile not in rack"
                    ELSE "Cell already occupied" ]_vars

\* The player to move has put a rack tile on a cell that holds a tile and was
\* told the cell is occupied.
C23_Witness ==
    /\ TargetsOccupied(state, scan)
    /\ ReachesOccupiedCheck(state, scan)
    /\ ~ret.success /\ ret.message = "Cell already occupied"

\* ------------------------------------------------------- tiles of the rack
\* The ids are a sub-multiset of the rack's ids: each is matched by a rack tile
\* of its own.
IdsFromRack(rack, ids) ==
    \E f \in [1..Len(ids) -> 1..Len(rack)] :
        /\ \A i \in 1..Len(ids) : rack[f[i]].id = ids[i]
        /\ \A i \in 1..Len(ids) : \A j \in 1..Len(ids) : i /= j => f[i] /= f[j]

CalledIds(call) == IF call.op = "placeMove" THEN PlacementIds(call.placements) ELSE call.tileIds

\* The call was a placeMove or exchangeTiles whose tile ids are not a sub-multiset
\* of the ids in the caller's rack.
NotFromRack(s, call) ==
    /\ call.ran /\ call.op \in {"placeMove", "exchangeTiles"}
    /\ ~IdsFromRack(s.racks[call.playerId], CalledIds(call))

\* The message of the check that fails before the rack is looked at, "" if none.
FailsBeforeRackCheck(s, call) ==
    IF s.currentPlayer /= call.playerId THEN "Not your turn"
    ELSE IF call.op = "placeMove" /\ ~AllInBounds(call.placements)
        THEN "Placement outside board"
    ELSE IF call.op = "exchangeTiles" /\ Len(s.bag) < Len(call.tileIds)
        THEN "Not enough tiles in bag"
    ELSE ""

\* C24 as stated: placeMove and exchangeTiles are rejected with 'Tile not in rack'
\* whenever the tile ids they reference are not a sub-multiset of the rack's ids.
C24_AlwaysTileNotInRack ==
    [][ NotFromRack(state, scan') =>
            ~ret'.success /\ ret'.message = "Tile not in rack" ]_vars

\* C24: a placeMove or exchangeTiles whose tile ids are not a sub-multiset of the
\* ids in the caller's rack is rejected and changes nothing; the message is 'Tile
\* not in rack' unless the caller is not the player to move, a placement is off
\* the board or the bag holds fewer tiles than ids were given, and then it is the
\* message of that check.
C24_TileInRackCheck ==
    [][ NotFromRack(state, scan') =>
            /\ ~ret'.success
            /\ state' = state
            /\ ret'.message =
                  IF FailsBeforeRackCheck(state, scan') /= ""
                  THEN FailsBeforeRackCheck(state, scan')
                  ELSE "Tile not in rack" ]_vars

\* The player to move has named one rack tile twice in a call, every id being in
\* the rack, and was told 'Tile not in rack'.
C24_Witness ==
    /\ NotFromRack(state, scan)
    /\ scan.playerId = state.currentPlayer
    /\ Len(CalledIds(scan)) = 2
    /\ CalledIds(scan)[1] = CalledIds(scan)[2]
    /\ CalledIds(scan)[1] \in IdsIn(state.racks[scan.playerId])
    /\ ~ret.success /\ ret.message = "Tile not in rack"

\* The player to move has placed the first tile of another player's rack.
C24_WitnessOtherRack ==
    /\ NotFromRack(state, scan)
    /\ scan.op = "placeMove"
    /\ scan.playerId = state.currentPlayer
    /\ \E q \in DOMAIN state.racks \ {scan.playerId} :
          CalledIds(scan)[1] \in IdsIn(state.racks[q])
    /\ ~ret.success /\ ret.message = "Tile not in rack"

\* ------------------------------------------------------------ four passes
\* The last four history entries exist and are all passes.
LastFourArePasses(history) ==
    /\ Len(history) >= 4
    /\ \A i \in (Len(history) - 3)..Len(history) : history[i].type = "PASS"

FourPassesReported(result) == result.gameEnded /= NoEnd /\ result.gameEnded.reason = "four_passes"

\* C25: in a game whose player count is not 2 no passTurn returns gameEnded and
\* checkGameEnd never answers 'four_passes'; in a two-player game neither happens
\* while the history has fewer than four entries or one of the last four is a
\* MOVE or an EXCHANGE.
C25_FourPassesTwoPlayersOnly ==
    /\ (Len(state.players) /= 2 \/ ~LastFourArePasses(state.history)) =>
          /\ ~FourPassesReported(ret)
          /\ ret.op = "passTurn" => ret.gameEnded = NoEnd
          /\ \A chk \in StartCheckers(state.language) :
                checkGameEnd(state, chk).reason /= "four_passes"

\* Three players have passed four times in a row and the game goes on.
C25_Witness ==
    /\ Len(state.players) = 3
    /\ LastFourArePasses(state.history)
    /\ ret.op = "passTurn" /\ ret.success /\ ret.gameEnded = NoEnd

\* Two players have passed three times after a move: the last four entries
\* hold a MOVE and the game goes on.
C25_WitnessAfterMove ==
    /\ Len(state.players) = 2
    /\ Len(state.history) = 4
    /\ state.history[1].type = "MOVE"
    /\ \A i \in 2..4 : state.history[i].type = "PASS"
    /\ ret.op = "passTurn" /\ ret.success /\ ret.gameEnded = NoEnd

\* ------------------------------------------------------------ move numbers
\* The entries of the history carry consecutive move numbers that end at the
\* game's moveNumber, and none is missing while the history is below its cap.
HistoryNumbered(s) ==
    /\ \A i \in 1..Len(s.history) :
          s.history[i].moveNumber = s.moveNumber - Len(s.history) + i
    /\ Len(s.history) = Min2(s.moveNumber, MAX_HISTORY)

\* C26: moveNumber is 0 in a started game, grows by exactly 1 on every successful
\* placeMove, passTurn and exchangeTiles and not at all on a rejected call; the
\* entry a call appends carries the moveNumber the call reached, so the history's
\* moveNumbers are consecutive and increasing.
C26_MoveNumbering ==
    /\ [] HistoryNumbered(state)
    /\ [][ /\ ret'.success =>
                /\ state'.moveNumber = state.moveNumber + 1
                /\ state'.history[Len(state'.history)].moveNumber = state'.moveNumber
           /\ ~ret'.success => state'.moveNumber = state.moveNumber ]_vars

\* A move, a pass and an exchange have been made, in some order, and a call has
\* been rejected since.
C26_Witness ==
    /\ ~ret.success
    /\ state.moveNumber = 3
    /\ { state.history[i].type : i \in 1..Len(state.history) } = {"MOVE", "PASS", "EXCHANGE"}

\* --------------------------------------------------------- bounded history
\* `after` is `before` with one entry appended and the oldest entries dropped
\* beyond the cap: the most recent entries, in the order they were made.
NewestKept(before, after) ==
    /\ Len(after) = Min2(Len(before) + 1, MAX_HISTORY)
    /\ \A i \in 1..(Len(after) - 1) :
          after[i] = before[i + (Len(before) + 1 - Len(after))]

\* C27: the history never holds more than 250 entries, and each recorded action
\* leaves the most recent entries in chronological order, dropping the oldest
\* once the cap is exceeded.
C27_HistoryBounded ==
    /\ [] (Len(state.history) <= MAX_HISTORY)
    /\ [][ ret'.success =>
              /\ NewestKept(state.history, state'.history)
              /\ state'.history[Len(state'.history)].moveNumber = state'.moveNumber
              /\ state'.history[Len(state'.history)].type = HistoryType(ret'.op)
              /\ \A i \in 1..(Len(state'.history) - 1) :
                    state'.history[i].moveNumber < state'.history[i + 1].moveNumber ]_vars

\* More than 250 actions have been made, the last one an exchange: the history
\* holds 250 entries and its oldest is no longer the first action.
C27_Witness ==
    /\ state.moveNumber > MAX_HISTORY + 1
    /\ Len(state.history) = MAX_HISTORY
    /\ state.history[1].moveNumber = state.moveNumber - MAX_HISTORY + 1
    /\ state.history[MAX_HISTORY].type = "EXCHANGE"

\* ---------------------------------------------------------- resume's copy
\* C28: after resume(snapshot) no operation on the engine changes the snapshot
\* object, and no later change of the snapshot object changes the engine's state.
C28_ResumeIsolation ==
    [][ /\ scan'.snapshot /= scan.snapshot => state' = state
        /\ ret' /= ret => scan'.snapshot = scan.snapshot ]_vars

\* ------------------------------------------------------ what the scanner finds
\* How many tiles of the rack show `letter`, blanks apart.
RackHas(rack, letter) ==
    Cardinality({ k \in 1..Len(rack) : ~rack[k].blank /\ rack[k].letter = letter })

BlanksIn(rack) == Cardinality({ k \in 1..Len(rack) : rack[k].blank })

\* The rack can supply the letters word[i], i \in empties: what its lettered
\* tiles do not cover, its blanks do.
RackSupplies(rack, word, empties) ==
    Cardinality(UNION { { <<l, n>> : n \in 1..(Cardinality({ i \in empties : word[i] = l })
                                               - RackHas(rack, l)) }
                        : l \in { word[i] : i \in empties } })
        <= BlanksIn(rack)

\* `word` laid from (x, y) in direction (dx, dy) stays on the board, agrees with
\* the tiles it crosses, fills at least one empty cell from the rack and is
\* followed by an empty cell or the edge of the board.
WordFits(board, rack, word, x, y, dx, dy) ==
    /\ inBounds(x + (Len(word) - 1) * dx) /\ inBounds(y + (Len(word) - 1) * dy)
    /\ \A i \in 1..Len(word) :
          HasTile(board, x + (i - 1) * dx, y + (i - 1) * dy) =>
              TileAt(board, x + (i - 1) * dx, y + (i - 1) * dy).letter = word[i]
    /\ \E i \in 1..Len(word) : ~HasTile(board, x + (i - 1) * dx, y + (i - 1) * dy)
    /\ RackSupplies(rack, word,
                    { i \in 1..Len(word) : ~HasTile(board, x + (i - 1) * dx, y + (i - 1) * dy) })
    /\ ~(inBounds(x + Len(word) * dx) /\ inBounds(y + Len(word) * dy)
           /\ HasTile(board, x + Len(word) * dx, y + Len(word) * dy))

SomeWordFits(board, rack, wordSet, minLength) ==
    \E word \in wordSet : \E c \in AllCells : \E d \in { <<1, 0>>, <<0, 1>> } :
        /\ Len(word) >= minLength
        /\ WordFits(board, rack, word, c[1], c[2], d[1], d[2])

\* C29: the scanner answers true only if a word of the word set, of at least
\* minLength letters, can be laid in a row or a column so that it uses at least
\* one rack tile and is followed by an empty cell or the edge; for an empty rack
\* it answers false, and a word lying on existing tiles alone does not count.
C29_ScannerReportsRealWords ==
    (scan.ran /\ scan.kind = "fast") =>
        /\ scan.hasAny =>
              SomeWordFits(state.board, state.racks[scan.playerId], scan.wordSet, scan.minLength)
        /\ state.racks[scan.playerId] = <<>> => ~scan.hasAny

\* The scanner has answered false for a player who holds a tile on a board whose
\* tiles spell a word of the word set.
C29_Witness ==
    /\ scan.ran /\ scan.kind = "fast" /\ ~scan.hasAny
    /\ state.racks[scan.playerId] /= <<>>
    /\ scan.minLength = 2
    /\ \E c \in DOMAIN state.board :
          LettersFrom(state.board, c[1], c[2], 1, 0) \in scan.wordSet

\* The scanner has answered true for a word of two letters that continues a tile
\* of the board, with minLength 2.
C29_WitnessFound ==
    /\ scan.ran /\ scan.kind = "fast" /\ scan.hasAny
    /\ scan.minLength = 2
    /\ boardHasAnyTiles(state.board)

\* ------------------------------------------------------------ cross-check masks
Perpendicular(primary) == IF primary = "row" THEN "col" ELSE "row"

\* The word through cell c across `primary` once c holds `letter`, read off the
\* board as the engine's collectWord reads it.
CrossWordWith(board, c, letter, primary) ==
    WordOf(collectWord(board @@ (c :> FixtureTile(0, letter, 0)),
                       [x |-> c[1], y |-> c[2]], Perpendicular(primary)))

\* The letters (as alphabet indices) a mask is to hold for the empty cell c.
LettersAllowedAt(board, c, primary, alphabet, wordSet, minLength) ==
    IF Len(CrossWordWith(board, c, alphabet[1], primary)) = 1 THEN 0..(Len(alphabet) - 1)
    ELSE IF Len(CrossWordWith(board, c, alphabet[1], primary)) < minLength THEN {}
    ELSE { i \in 0..(Len(alphabet) - 1) :
             CrossWordWith(board, c, alphabet[i + 1], primary) \in wordSet }

ScanMasks ==
    computeCrossMasks(state.board, alphabetFor(state.language),
                      buildLetterToIndex(alphabetFor(state.language)),
                      scan.wordSet, scan.minLength)

MaskOf(masks, primary) == IF primary = "row" THEN masks.row ELSE masks.col

MasksExact ==
    \A c \in AllCells \ DOMAIN state.board : \A primary \in { "row", "col" } :
        MaskOf(ScanMasks, primary)[c] =
            LettersAllowedAt(state.board, c, primary, alphabetFor(state.language),
                             scan.wordSet, scan.minLength)

\* `word` fits from (x, y) along `primary`, and each empty cell it fills takes a
\* letter allowed at that cell.
WordFitsWithinMasks(board, rack, word, x, y, primary, alphabet, wordSet, minLength) ==
    /\ WordFits(board, rack, word, x, y, StepX(primary), StepY(primary))
    /\ \A i \in 1..Len(word) :
          ~HasTile(board, x + (i - 1) * StepX(primary), y + (i - 1) * StepY(primary)) =>
              \E k \in LettersAllowedAt(board,
                                        <<x + (i - 1) * StepX(primary),
                                          y + (i - 1) * StepY(primary)>>,
                                        primary, alphabet, wordSet, minLength) :
                  alphabet[k + 1] = word[i]

FoundWithinMasks ==
    \E word \in scan.wordSet : \E c \in AllCells : \E primary \in { "row", "col" } :
        /\ Len(word) >= scan.minLength
        /\ WordFitsWithinMasks(state.board, state.racks[scan.playerId], word, c[1], c[2],
                               primary, alphabetFor(state.language), scan.wordSet,
                               scan.minLength)

\* C30: for every empty cell and each orientation the cross-check mask holds
\* exactly the letters whose perpendicular word with the neighbouring tiles is in
\* the word set - every letter when the cell has no perpendicular neighbour, none
\* when that word is shorter than minLength - and a move the scanner finds fills
\* each empty cell with a letter of that cell's mask.
C30_CrossCheckMasks ==
    (scan.ran /\ scan.kind = "fast") =>
        /\ MasksExact
        /\ scan.hasAny => FoundWithinMasks

\* A scan that found a move on a board where some empty cell admits some letters
\* of the alphabet but not all.
C30_Witness ==
    /\ scan.ran /\ scan.kind = "fast" /\ scan.hasAny
    /\ \E c \in AllCells \ DOMAIN state.board :
          /\ ScanMasks.row[c] /= {}
          /\ ScanMasks.row[c] /= allLettersMask(Len(alphabetFor(state.language)))

\* A scan where a cell's cross word would be in the word set but is shorter than
\* minLength, so that the cell admits no letter.
C30_WitnessShort ==
    /\ scan.ran /\ scan.kind = "fast"
    /\ \E c \in AllCells \ DOMAIN state.board : \E i \in 1..Len(alphabetFor(state.language)) :
          /\ ScanMasks.row[c] = {}
          /\ CrossWordWith(state.board, c, alphabetFor(state.language)[i], "row") \in scan.wordSet

\* ------------------------------------------------------------ search spec
\* The backtracking search of hasAnyMoveRow / hasAnyMoveCol one step at a time:
\* `counts` is the array the closures share, `stack` the calls in progress.  A
\* frame keeps the counts found on entry, the letter its caller put down for it
\* and the rack resource (`via`) that letter was taken from.
Along(c, primary) == IF primary = "row" THEN c[1] ELSE c[2]

NextCell(c, primary) == <<c[1] + StepX(primary), c[2] + StepY(primary)>>

CellsInOrder == [i \in 1..(BOARD_SIZE * BOARD_SIZE) |-> <<(i - 1) % BOARD_SIZE, (i - 1) \div BOARD_SIZE>>]

\* The anchors in the order computeAnchors pushes them.
AnchorSeq(board) == SelectSeq(CellsInOrder, LAMBDA c : c \in computeAnchors(board))

Entered(fn, status, c, node, wordLen) ==
    [fn |-> fn, status |-> status, cell |-> c, node |-> node, wordLen |-> wordLen]

\* extendRight / extendDown up to its for loop: the value it returns at once, or
\* the empty cell whose letters it is about to try.  The calls on tiles are tail
\* calls and are followed here.
RECURSIVE extendEntry(_, _, _, _, _, _, _)
extendEntry(ctx, primary, c, node, wordLen, usedRack, anchor) ==
    IF Along(c, primary) >= BOARD_SIZE
    THEN Entered("extend", IF WordEnds(ctx, node, wordLen, usedRack) THEN "true" ELSE "false",
                 c, node, wordLen)
    ELSE IF HasTile(ctx.board, c[1], c[2])
    THEN IF /\ TileAt(ctx.board, c[1], c[2]).letter \in DOMAIN ctx.letterToIndex
            /\ Append(node, ctx.letterToIndex[TileAt(ctx.board, c[1], c[2]).letter])
                   \in ctx.root.nodes
         THEN extendEntry(ctx, primary, NextCell(c, primary),
                          Append(node, ctx.letterToIndex[TileAt(ctx.board, c[1], c[2]).letter]),
                          wordLen + 1, usedRack, anchor)
         ELSE Entered("extend", "false", c, node, wordLen)
    ELSE IF Along(c, primary) /= Along(anchor, primary) /\ WordEnds(ctx, node, wordLen, usedRack)
    THEN Entered("extend", "true", c, node, wordLen)
    ELSE Entered("extend", "loop", c, node, wordLen)

\* fillLeft / fillUp up to its for loop.
fillEntry(ctx, primary, c, endExclusive, node, fixedAfter, anchor, lenSoFar) ==
    IF Along(c, primary) = endExclusive
    THEN IF traverseFixedPrefix(ctx.root, node, fixedAfter).isNull
         THEN Entered("fill", "false", c, node, lenSoFar)
         ELSE extendEntry(ctx, primary, anchor,
                          traverseFixedPrefix(ctx.root, node, fixedAfter).node,
                          lenSoFar + Len(fixedAfter), FALSE, anchor)
    ELSE Entered("fill", "loop", c, node, lenSoFar)

SearchFrame(ctx, entered, counts, blanks, via, idx, endExclusive, fixedAfter, anchor) ==
    [fn |-> entered.fn, status |-> entered.status, cell |-> entered.cell,
     node |-> entered.node, wordLen |-> entered.wordLen,
     pending |-> IF entered.status = "loop" THEN Children(ctx.root, entered.node) ELSE {},
     entry |-> counts, blanks |-> blanks, via |-> via, idx |-> idx,
     endExclusive |-> endExclusive, fixedAfter |-> fixedAfter, anchor |-> anchor]

\* The recursive call of a for loop's body, for the letter idx put on f.cell.
childEntry(ctx, primary, f, idx) ==
    IF f.fn = "fill"
    THEN fillEntry(ctx, primary, NextCell(f.cell, primary), f.endExclusive,
                   Append(f.node, idx), f.fixedAfter, f.anchor, f.wordLen + 1)
    ELSE extendEntry(ctx, primary, NextCell(f.cell, primary), Append(f.node, idx),
                     f.wordLen + 1, TRUE, f.anchor)

\* Mutant of consume: a tile of the letter is taken whether or not one is left.
consume_Unchecked(counts, blanks, idx) ==
    [via |-> "tile", counts |-> [counts EXCEPT ![idx] = @ - 1], blanks |-> blanks]

\* `if (counts[idx] > 0) { counts[idx] -= 1; ... } else if (blanks > 0) { ... blanks - 1 ... }`
consume(counts, blanks, idx) ==
    IF counts[idx] > 0
    THEN [via |-> "tile", counts |-> [counts EXCEPT ![idx] = @ - 1], blanks |-> blanks]
    ELSE IF blanks > 0
    THEN [via |-> "blank", counts |-> counts, blanks |-> blanks - 1]
    ELSE [via |-> "none", counts |-> counts, blanks |-> blanks]

\* Mutant of release: the decrement is not undone.
release_Nothing(counts, f) == counts

\* `counts[idx] += 1` after a recursive call that returned false.
release(counts, f) ==
    IF f.via = "tile" THEN [counts EXCEPT ![f.idx] = @ + 1] ELSE counts

SearchContext ==
    ScanContext(state.board,
                buildTrie(scan.wordSet, buildLetterToIndex(alphabetFor(state.language))),
                buildLetterToIndex(alphabetFor(state.language)),
                MaskOf(ScanMasks, scan.primary), scan.minLength)

SearchRackCounts ==
    rackCountsForPlayer(state, scan.playerId, buildLetterToIndex(alphabetFor(state.language)),
                        Len(alphabetFor(state.language)))

NoReturn == [value |-> "none"]

Returned(value, f, counts) == [value |-> value, fn |-> f.fn, entry |-> f.entry, exit |-> counts]

SearchWordSets ==
    { { <<"H", "I">> },
      { <<"H", "I">>, <<"A", "I", "T">> },
      { <<"H", "A">>, <<"H", "I">>, <<"I", "T">>, <<"A", "T">>, <<"H", "I", "T">>,
        <<"A", "H">> },
      { <<"H", "A">> } }

SearchMinLength == 2

SearchInit ==
    /\ \E board \in ScanBoards : \E rack \in ScanRacks :
          state = baseState(board, [p1 |-> rack, p2 |-> <<FixtureTile(21, "T", 1)>>], <<>>)
    /\ ret = NoRet
    /\ meta = NoMeta
    /\ \E wordSet \in SearchWordSets : \E primary \in { "row", "col" } :
          scan = [ran |-> TRUE, kind |-> "search", playerId |-> "p1", wordSet |-> wordSet,
                  minLength |-> SearchMinLength, primary |-> primary,
                  counts |-> rackCountsForPlayer(state, "p1",
                                 buildLetterToIndex(alphabetFor(state.language)),
                                 Len(alphabetFor(state.language))).counts,
                  anchorAt |-> 1, usedBack |-> 0, stack |-> <<>>, result |-> "running",
                  last |-> NoReturn]

\* The anchor loop, lines 340-378 and 460-484: one iteration of the inner loop, up
\* to the call of fillLeft / fillUp.
searchBegin(sc, ctx, anchor, fixed) ==
    IF fixed.isNull THEN [sc EXCEPT !.anchorAt = @ + 1, !.usedBack = 0]
    ELSE IF sc.usedBack > EmptyRun(ctx.board, fixed.startX - StepX(sc.primary),
                                   fixed.startY - StepY(sc.primary),
                                   0 - StepX(sc.primary), 0 - StepY(sc.primary))
    THEN [sc EXCEPT !.anchorAt = @ + 1, !.usedBack = 0]
    ELSE IF /\ inBounds(fixed.startX - (sc.usedBack + 1) * StepX(sc.primary))
            /\ inBounds(fixed.startY - (sc.usedBack + 1) * StepY(sc.primary))
            /\ HasTile(ctx.board, fixed.startX - (sc.usedBack + 1) * StepX(sc.primary),
                       fixed.startY - (sc.usedBack + 1) * StepY(sc.primary))
    THEN [sc EXCEPT !.usedBack = @ + 1]
    ELSE [sc EXCEPT !.stack =
            <<SearchFrame(ctx,
                          fillEntry(ctx, sc.primary,
                                    <<fixed.startX - sc.usedBack * StepX(sc.primary),
                                      fixed.startY - sc.usedBack * StepY(sc.primary)>>,
                                    Along(<<fixed.startX, fixed.startY>>, sc.primary),
                                    <<>>, fixed.letters, anchor, 0),
                          sc.counts, SearchRackCounts.blanks, "root", 0,
                          Along(<<fixed.startX, fixed.startY>>, sc.primary),
                          fixed.letters, anchor)>>]

SearchBegin ==
    /\ scan.ran /\ scan.kind = "search" /\ scan.result = "running" /\ scan.stack = <<>>
    /\ scan' = IF Len(state.racks[scan.playerId]) = 0 \/ scan.anchorAt > Len(AnchorSeq(state.board))
               THEN [scan EXCEPT !.result = "false"]
               ELSE searchBegin(scan, SearchContext, AnchorSeq(state.board)[scan.anchorAt],
                                fixedPrefixBeforeAnchor(state.board,
                                                        AnchorSeq(state.board)[scan.anchorAt],
                                                        scan.primary,
                                                        buildLetterToIndex(alphabetFor(state.language))))
    /\ UNCHANGED <<state, ret, meta>>

Top(stack) == stack[Len(stack)]

\* One turn of a for loop over node.children, up to the recursive call.
searchTry(sc, ctx, f, idx, r) ==
    IF idx \notin ctx.mask[f.cell] \/ r.via = "none"
    THEN [sc EXCEPT !.stack[Len(sc.stack)].pending = @ \ {idx}]
    ELSE [sc EXCEPT !.stack = Append([sc.stack EXCEPT ![Len(sc.stack)].pending = @ \ {idx}],
                                     SearchFrame(ctx, childEntry(ctx, sc.primary, f, idx),
                                                 r.counts, r.blanks, r.via, idx,
                                                 f.endExclusive, f.fixedAfter, f.anchor)),
                    !.counts = r.counts]

SearchTry ==
    /\ scan.ran /\ scan.kind = "search" /\ scan.result = "running" /\ scan.stack /= <<>>
    /\ Top(scan.stack).status = "loop"
    /\ \E idx \in Top(scan.stack).pending :
          scan' = searchTry(scan, SearchContext, Top(scan.stack), idx,
                            consume(scan.counts, Top(scan.stack).blanks, idx))
    /\ UNCHANGED <<state, ret, meta>>

\* A call returns false: at once, or when its loop has run out.  The caller undoes
\* its decrement; the anchor loop goes on to the next start.
SearchReturnFalse ==
    /\ scan.ran /\ scan.kind = "search" /\ scan.result = "running" /\ scan.stack /= <<>>
    /\ \/ Top(scan.stack).status = "false"
       \/ Top(scan.stack).status = "loop" /\ Top(scan.stack).pending = {}
    /\ scan' = [scan EXCEPT !.stack = SubSeq(@, 1, Len(@) - 1),
                            !.counts = release(@, Top(scan.stack)),
                            !.usedBack = IF Len(scan.stack) = 1 THEN @ + 1 ELSE @,
                            !.last = Returned("false", Top(scan.stack), scan.counts)]
    /\ UNCHANGED <<state, ret, meta>>

\* A call returns true and so does every caller up to hasAnyMoveRow / hasAnyMoveCol.
SearchReturnTrue ==
    /\ scan.ran /\ scan.kind = "search" /\ scan.result = "running" /\ scan.stack /= <<>>
    /\ Top(scan.stack).status = "true"
    /\ scan' = [scan EXCEPT !.result = "true",
                            !.last = Returned("true", Top(scan.stack), scan.counts)]
    /\ UNCHANGED <<state, ret, meta>>

SearchNext == SearchBegin \/ SearchTry \/ SearchReturnFalse \/ SearchReturnTrue

SearchSpec == SearchInit /\ [][SearchNext]_vars

\* The step-by-step search agrees with the scanner's result for the orientation.
SearchAgrees ==
    (scan.ran /\ scan.kind = "search" /\ scan.result /= "running") =>
        (scan.result = "true") =
            IF scan.primary = "row"
            THEN hasAnyMoveRow(state, scan.playerId, computeAnchors(state.board), FALSE, SearchContext.root, SearchContext.letterToIndex, SearchContext.mask, Len(alphabetFor(state.language)), scan.minLength)
            ELSE hasAnyMoveCol(state, scan.playerId, computeAnchors(state.board), FALSE, SearchContext.root, SearchContext.letterToIndex, SearchContext.mask, Len(alphabetFor(state.language)), scan.minLength)

\* -------------------------------------------------- rack resources in the search
\* The calls in progress whose letter was taken from the rack as `via`.
TakenVia(via) == { k \in 1..Len(scan.stack) : scan.stack[k].via = via }

TilesTaken(idx) == Cardinality({ k \in TakenVia("tile") : scan.stack[k].idx = idx })

ResourcesAccountFor(rc) ==
    /\ \A idx \in DOMAIN scan.counts :
          /\ TilesTaken(idx) <= rc.counts[idx]
          /\ scan.counts[idx] = rc.counts[idx] - TilesTaken(idx)
    /\ Cardinality(TakenVia("blank")) <= rc.blanks
    /\ scan.stack /= <<>> =>
          /\ Top(scan.stack).blanks = rc.blanks - Cardinality(TakenVia("blank"))
          /\ Cardinality(TakenVia("tile")) + Cardinality(TakenVia("blank")) = Len(scan.stack) - 1
          /\ Len(scan.stack) - 1 <= Len(state.racks[scan.playerId])
    /\ \A k \in TakenVia("blank") :
          scan.stack[k - 1].entry[scan.stack[k].idx] = 0
    /\ \A k \in TakenVia("tile") :
          scan.stack[k].entry[scan.stack[k].idx] = scan.stack[k - 1].entry[scan.stack[k].idx] - 1

\* C31: along a search path each newly filled cell takes exactly one rack
\* resource - a tile of the letter while the counts hold one, a blank otherwise -
\* so the tiles taken of a letter never exceed the rack's tiles of that letter,
\* the blanks taken never exceed the rack's blanks, and what is taken in all
\* never exceeds the rack.
C31_BlanksAreWildcards ==
    (scan.ran /\ scan.kind = "search") => ResourcesAccountFor(SearchRackCounts)

\* The search has found a word for which it took a tile for one letter and a
\* blank for another.
C31_Witness ==
    /\ scan.ran /\ scan.kind = "search" /\ scan.result = "true"
    /\ TakenVia("tile") /= {} /\ TakenVia("blank") /= {}

\* --------------------------------------------------------- backtracking restores
CountsRestored ==
    (scan.ran /\ scan.kind = "search") =>
        /\ scan.last.value = "false" => scan.last.exit = scan.last.entry
        /\ scan.stack = <<>> => scan.counts = SearchRackCounts.counts

\* C40: when fillLeft / extendRight (fillUp / extendDown) return false the shared
\* counts are what they were when the call was entered, every start of every
\* anchor is searched with the player's whole rack, and the scan leaves the
\* board, the racks and the word set as they were.
C40_BacktrackingRestores ==
    /\ []CountsRestored
    /\ [][(scan.ran /\ scan.kind = "search") =>
              /\ state' = state
              /\ scan'.wordSet = scan.wordSet]_vars

\* A call that took a tile from the counts has returned false and the tile is
\* back in the counts.
C40_Witness ==
    /\ scan.ran /\ scan.kind = "search"
    /\ scan.last.value = "false"
    /\ scan.counts /= scan.last.exit

\* ------------------------------------------------------------ worker spec
\* The scan worker: requests arrive, each waits for getDictionaryWordSet and then
\* runs to its response.  Word sets are objects: a reference names one, and two
\* references may hold the same words.  The dictionary service fills a set before
\* it publishes it and never writes to it afterwards.
dictKeyOf(req) ==
    IF req.language = "ru" /\ req.russianVariant = "strict" THEN "ru-strict" ELSE req.language

DictKeys == { "en", "ru", "ru-strict" }

RefWords(ref) ==
    CASE ref = 1 -> { <<"H", "I">> }
      [] ref = 2 -> { <<"H", "A">> }
      [] ref = 3 -> { <<"H", "I">> }
      [] ref = 4 -> { <<"H", "I">> }
      [] OTHER -> { <<"H", "A">> }

\* The word-set objects memoryCache[key] may hold over time.
RefsFor(key) == IF key = "en" THEN { 1, 2, 3 } ELSE IF key = "ru" THEN { 4 } ELSE { 5 }

\* What `await getDictionaryWordSet(dictKey)` comes to: a word set, null, or a
\* rejection.
WordSetOutcomes(key) ==
    { [kind |-> "set", ref |-> r] : r \in RefsFor(key) }
        \cup { [kind |-> "null", ref |-> 0], [kind |-> "throw", ref |-> 0] }

NoTrie == [present |-> FALSE]

TrieCacheEntry(root, alphabet, letterToIndex, wordSetRef) ==
    [present |-> TRUE, root |-> root, alphabet |-> alphabet, alphabetLen |-> Len(alphabet),
     letterToIndex |-> letterToIndex, wordSetRef |-> wordSetRef]

\* Mutant of rebuildsTrie: a cached trie is reused whatever word set it was built
\* from.
rebuildsTrie_WhenAbsent(cached, wordSet) == ~cached.present

\* `!cached || cached.wordSetRef !== wordSet`
rebuildsTrie(cached, wordSet) == ~cached.present \/ cached.wordSetRef /= wordSet

scanLetterToIndex(cached, alphabet) ==
    IF cached.present THEN cached.letterToIndex ELSE buildLetterToIndex(alphabet)

scanTrie(cached, wordSet, alphabet) ==
    IF rebuildsTrie(cached, wordSet)
    THEN buildTrie(RefWords(wordSet), scanLetterToIndex(cached, alphabet))
    ELSE cached.root

ScanResponse(requestId, allStuck, reason) ==
    [type |-> "ENDGAME_SCAN_RESPONSE", requestId |-> requestId, allStuck |-> allStuck,
     reason |-> reason]

\* Mutant of anyPlayerHasMove: only the first player is scanned.
anyPlayerHasMove_FirstOnly(req, root, letterToIndex, alphabet, wordSet) ==
    hasAnyValidMoveFast(req.state, req.state.players[1], computeAnchors(req.state.board), ~boardHasAnyTiles(req.state.board), root, letterToIndex, computeCrossMasks(req.state.board, alphabet, letterToIndex, RefWords(wordSet), req.minLength), Len(alphabet), req.minLength)

\* The loop over req.state.players, lines 542-557.
anyPlayerHasMove(req, root, letterToIndex, alphabet, wordSet) ==
    \E playerId \in Range(req.state.players) :
        hasAnyValidMoveFast(req.state, playerId, computeAnchors(req.state.board),
                            ~boardHasAnyTiles(req.state.board), root, letterToIndex,
                            computeCrossMasks(req.state.board, alphabet, letterToIndex,
                                              RefWords(wordSet), req.minLength),
                            Len(alphabet), req.minLength)

\* runScan from the return of getDictionaryWordSet on: the response, the trie
\* cache it leaves and the trie it scanned with.
runScan(req, outcome, trieCache) ==
    IF outcome.kind = "throw"
    THEN [response |-> ScanResponse(req.requestId, FALSE, "error"), trieCache |-> trieCache,
          used |-> NoTrie]
    ELSE IF outcome.kind = "null"
    THEN [response |-> ScanResponse(req.requestId, FALSE, "dictionary_unavailable"),
          trieCache |-> trieCache, used |-> NoTrie]
    ELSE [response |->
            ScanResponse(req.requestId,
                         ~anyPlayerHasMove(req,
                                           scanTrie(trieCache[dictKeyOf(req)], outcome.ref,
                                                    alphabetFor(dictKeyOf(req))),
                                           scanLetterToIndex(trieCache[dictKeyOf(req)],
                                                             alphabetFor(dictKeyOf(req))),
                                           alphabetFor(dictKeyOf(req)), outcome.ref),
                         "none"),
          trieCache |->
            IF rebuildsTrie(trieCache[dictKeyOf(req)], outcome.ref)
            THEN [trieCache EXCEPT ![dictKeyOf(req)] =
                    TrieCacheEntry(scanTrie(trieCache[dictKeyOf(req)], outcome.ref,
                                            alphabetFor(dictKeyOf(req))),
                                   alphabetFor(dictKeyOf(req)),
                                   scanLetterToIndex(trieCache[dictKeyOf(req)],
                                                     alphabetFor(dictKeyOf(req))),
                                   outcome.ref)]
            ELSE trieCache,
          used |-> [present |-> TRUE, key |-> dictKeyOf(req), wordSetRef |-> outcome.ref,
                    rebuilt |-> rebuildsTrie(trieCache[dictKeyOf(req)], outcome.ref),
                    cachedRef |-> IF trieCache[dictKeyOf(req)].present
                                  THEN trieCache[dictKeyOf(req)].wordSetRef ELSE 0,
                    root |-> scanTrie(trieCache[dictKeyOf(req)], outcome.ref,
                                      alphabetFor(dictKeyOf(req)))]]

MaxRequests == 2

WorkerBoard == (<<7, 7>> :> FixtureTile(1, "H", 4))

\* Games in which the first player, the second player or nobody can add to the H.
WorkerStates ==
    { baseState(WorkerBoard, [p1 |-> <<FixtureTile(11, "I", 1)>>, p2 |-> <<FixtureTile(21, "T", 1)>>], <<>>),
      baseState(WorkerBoard, [p1 |-> <<FixtureTile(11, "T", 1)>>, p2 |-> <<FixtureTile(21, "I", 1)>>], <<>>),
      baseState(WorkerBoard, [p1 |-> <<FixtureTile(11, "T", 1)>>, p2 |-> <<>>], <<>>) }

ScanRequest(requestId, s, language, russianVariant, minLength) ==
    [type |-> "ENDGAME_SCAN_REQUEST", requestId |-> requestId, state |-> s,
     language |-> language, russianVariant |-> russianVariant, minLength |-> minLength]

RequestSettings == { <<"en", "full">>, <<"ru", "full">>, <<"ru", "strict">> }

WorkerMinLength == 2

WorkerInit ==
    /\ state \in WorkerStates
    /\ ret = NoRet
    /\ meta = NoMeta
    /\ scan = [ran |-> TRUE, kind |-> "worker", received |-> 0, pending |-> {},
               trieCache |-> [k \in DictKeys |-> NoTrie], responses |-> <<>>,
               used |-> NoTrie, log |-> <<>>]

\* The message listener: a request starts runScan, which waits for the word set.
WorkerReceive ==
    /\ scan.ran /\ scan.kind = "worker" /\ scan.received < MaxRequests
    /\ \E settings \in RequestSettings :
          scan' = [scan EXCEPT !.received = @ + 1,
                               !.pending = @ \cup { ScanRequest(scan.received + 1, state,
                                                                settings[1], settings[2],
                                                                WorkerMinLength) }]
    /\ UNCHANGED <<state, ret, meta>>

\* getDictionaryWordSet settles for one of the waiting requests; runScan runs to
\* its return and the response is posted.  `log` remembers the request and what
\* getDictionaryWordSet came to, next to the response.
workerRun(sc, req, outcome, r) ==
    [sc EXCEPT !.pending = @ \ {req}, !.trieCache = r.trieCache,
               !.responses = Append(@, r.response), !.used = r.used,
               !.log = Append(@, [req |-> req, outcome |-> outcome])]

WorkerRun ==
    /\ scan.ran /\ scan.kind = "worker"
    /\ \E req \in scan.pending : \E outcome \in WordSetOutcomes(dictKeyOf(req)) :
          scan' = workerRun(scan, req, outcome, runScan(req, outcome, scan.trieCache))
    /\ UNCHANGED <<state, ret, meta>>

WorkerNext == WorkerReceive \/ WorkerRun

WorkerSpec == WorkerInit /\ [][WorkerNext]_vars

\* ------------------------------------------------------------- scan outcomes
\* Some player of the request's game has a move with the words of `ref`: the
\* scanner on a trie built for the occasion.
SomePlayerCanMove(req, ref) ==
    \E playerId \in Range(req.state.players) :
        scanPlayer(req.state, playerId, alphabetFor(dictKeyOf(req)),
                   buildLetterToIndex(alphabetFor(dictKeyOf(req))), RefWords(ref), req.minLength)

Answered(sc) == { sc.responses[i].requestId : i \in 1..Len(sc.responses) }

\* A step of the worker posts at most one response, for a request that was
\* waiting, and leaves the responses posted before as they were.
PostsOnce(sc, next) ==
    /\ Len(next.responses) <= Len(sc.responses) + 1
    /\ SubSeq(next.responses, 1, Len(sc.responses)) = sc.responses
    /\ Answered(next) \ Answered(sc) \subseteq { req.requestId : req \in sc.pending }
    /\ { req.requestId : req \in sc.pending } \ Answered(next)
           \subseteq { req.requestId : req \in next.pending }

OutcomeKept(response, req, outcome) ==
    /\ response.requestId = req.requestId
    /\ response.allStuck = (outcome.kind = "set" /\ ~SomePlayerCanMove(req, outcome.ref))
    /\ response.reason = CASE outcome.kind = "null" -> "dictionary_unavailable"
                           [] outcome.kind = "throw" -> "error"
                           [] OTHER -> "none"

AnsweredIds == { scan.responses[i].requestId : i \in 1..Len(scan.responses) }

OneResponseEach ==
    /\ \A i, j \in 1..Len(scan.responses) :
          scan.responses[i].requestId = scan.responses[j].requestId => i = j
    /\ AnsweredIds \cap { req.requestId : req \in scan.pending } = {}
    /\ AnsweredIds \cup { req.requestId : req \in scan.pending } = 1..scan.received

\* Responses are only ever appended, so each one is looked at when it is the last.
OutcomesKept ==
    (scan.ran /\ scan.kind = "worker") =>
        /\ OneResponseEach
        /\ Len(scan.log) = Len(scan.responses)
        /\ scan.responses /= <<>> =>
              OutcomeKept(scan.responses[Len(scan.responses)], scan.log[Len(scan.log)].req,
                          scan.log[Len(scan.log)].outcome)

\* C32: runScan answers allStuck = true only when the word set was there and no
\* player has a move, allStuck = false as soon as one has; without the word set
\* it answers false with reason 'dictionary_unavailable', on a throw false with
\* reason 'error'; a request waits until it is answered, and is answered once,
\* with its requestId.
C32_ScanOutcomes ==
    /\ []OutcomesKept
    /\ [][(scan.ran /\ scan.kind = "worker") => PostsOnce(scan, scan')]_vars

\* Every request has been answered: one with allStuck, another with an error.
C32_Witness ==
    /\ scan.ran /\ scan.kind = "worker" /\ Len(scan.responses) = MaxRequests
    /\ \E i \in 1..Len(scan.responses) : scan.responses[i].allStuck
    /\ \E i \in 1..Len(scan.responses) : scan.responses[i].reason = "error"

\* A request was answered "not stuck" because a player has a move, a later one
\* because the dictionary was unavailable.
C32_WitnessUnavailable ==
    /\ scan.ran /\ scan.kind = "worker" /\ Len(scan.responses) = MaxRequests
    /\ scan.responses[1].reason = "none" /\ ~scan.responses[1].allStuck
    /\ scan.responses[2].reason = "dictionary_unavailable"

\* ----------------------------------------------------------- trie cache
TrieOf(key, ref) == buildTrie(RefWords(ref), buildLetterToIndex(alphabetFor(key)))

\* C33: the trie a scan runs on is the trie of the word-set object returned for
\* the scan's dictionary key; the cached trie is reused only when the cached
\* word-set reference is that very object and rebuilt otherwise, and the cache
\* holds for each key the trie of the word set it names.
C33_TrieCacheCoherent ==
    (scan.ran /\ scan.kind = "worker") =>
        /\ scan.used.present =>
              /\ scan.used.root = TrieOf(scan.used.key, scan.used.wordSetRef)
              /\ scan.used.rebuilt = (scan.used.cachedRef /= scan.used.wordSetRef)
              /\ scan.trieCache[scan.used.key].present
              /\ scan.trieCache[scan.used.key].wordSetRef = scan.used.wordSetRef
        /\ \A key \in DictKeys :
              scan.trieCache[key].present =>
                  scan.trieCache[key].root = TrieOf(key, scan.trieCache[key].wordSetRef)

\* A scan found a trie cached for another word set, with other words, and rebuilt
\* it.
C33_Witness ==
    /\ scan.ran /\ scan.kind = "worker" /\ scan.used.present
    /\ scan.used.cachedRef /= 0
    /\ scan.used.cachedRef /= scan.used.wordSetRef
    /\ RefWords(scan.used.cachedRef) /= RefWords(scan.used.wordSetRef)

\* A scan found the trie of its word set in the cache and used it.
C33_WitnessReused ==
    /\ scan.ran /\ scan.kind = "worker" /\ scan.used.present
    /\ ~scan.used.rebuilt

\* ------------------------------------------------------------- ready spec
\* The ready gate of a new host session.  null is NoStart, a number t is
\* StartAt(t); an undefined readyState is NoReadyState, a record is Ready(f) with
\* f defined on the ids that were ever written.
NoStart == [set |-> FALSE]

StartAt(t) == [set |-> TRUE, at |-> t]

NoReadyState == [defined |-> FALSE]

Ready(f) == [defined |-> TRUE, ready |-> f]

allPlayersReady(players, readyState) ==
    IF ~readyState.defined THEN FALSE
    ELSE \A i \in 1..Len(players) :
            players[i] \in DOMAIN readyState.ready /\ readyState.ready[players[i]] = TRUE

\* Mutant of maybeComputeGameStartAt: the start already set is not looked at.
maybeComputeGameStartAt_Recomputes(opts) ==
    IF ~allPlayersReady(opts.players, opts.readyState) THEN NoStart
    ELSE StartAt(opts.now + opts.graceMs)

maybeComputeGameStartAt(opts) ==
    IF opts.currentStartAt.set THEN opts.currentStartAt
    ELSE IF ~allPlayersReady(opts.players, opts.readyState) THEN NoStart
    ELSE StartAt(opts.now + opts.graceMs)

READY_GRACE_MS == 3000

StartOpts(currentStartAt, players, readyState, now, graceMs) ==
    [currentStartAt |-> currentStartAt, players |-> players, readyState |-> readyState,
     now |-> now, graceMs |-> graceMs]

\* createSession for a host with a remote player, lines 1500-1509.
ReadyMeta(timerEnabled) ==
    [mode |-> "host", isHost |-> TRUE, localPlayerId |-> "p1",
     timerEnabled |-> timerEnabled, timerDurationSec |-> 60, turnDeadline |-> 0,
     readyState |-> Ready([p \in { "p1", "p2" } |-> FALSE]), gameStartAt |-> NoStart]

\* `if (!meta.readyState) meta.readyState = {}; meta.readyState[id] = ready`
setReady(m, playerId, ready) ==
    [m EXCEPT !.readyState =
        Ready(IF m.readyState.defined
              THEN [p \in DOMAIN m.readyState.ready \cup {playerId} |->
                      IF p = playerId THEN ready ELSE m.readyState.ready[p]]
              ELSE [p \in {playerId} |-> ready])]

scheduledStart(m, startAt) ==
    IF ~startAt.set THEN [m EXCEPT !.gameStartAt = startAt]
    ELSE IF m.timerEnabled /\ m.timerDurationSec /= 0
    THEN [m EXCEPT !.gameStartAt = startAt, !.turnDeadline = startAt.at + m.timerDurationSec * 1000]
    ELSE [m EXCEPT !.gameStartAt = startAt]

maybeScheduleGameStartFromReady(m, s, now) ==
    IF ~m.isHost THEN m
    ELSE IF m.mode = "solo" THEN m
    ELSE IF m.gameStartAt.set THEN m
    ELSE IF ~allPlayersReady(s.players, m.readyState) THEN m
    ELSE scheduledStart(m, maybeComputeGameStartAt(
                               StartOpts(m.gameStartAt, s.players, m.readyState, now,
                                         READY_GRACE_MS)))

MaxClock == 3000
ClockStep == 1500

NoCall == [made |-> FALSE]

ReadyInit ==
    /\ state = baseState(createBoard, [p1 |-> <<FixtureTile(11, "I", 1)>>, p2 |-> <<FixtureTile(21, "T", 1)>>], <<>>)
    /\ ret = NoRet
    /\ \E timerEnabled \in BOOLEAN : meta = ReadyMeta(timerEnabled)
    /\ scan = [ran |-> TRUE, kind |-> "ready", now |-> 0, call |-> NoCall]

ReadyTick ==
    /\ scan.ran /\ scan.kind = "ready" /\ scan.now < MaxClock
    /\ scan' = [scan EXCEPT !.now = @ + ClockStep]
    /\ UNCHANGED <<state, ret, meta>>

\* markLocalReady on the host.
MarkLocalReady ==
    /\ scan.ran /\ scan.kind = "ready"
    /\ meta' = maybeScheduleGameStartFromReady(setReady(meta, meta.localPlayerId, TRUE),
                                               state, scan.now)
    /\ UNCHANGED <<state, ret, scan>>

\* handleMessage for PLAYER_READY on the host.
HandlePlayerReady ==
    /\ scan.ran /\ scan.kind = "ready"
    /\ \E playerId \in { "p1", "p2" } : \E ready \in BOOLEAN :
          meta' = maybeScheduleGameStartFromReady(setReady(meta, playerId, ready), state,
                                                  scan.now)
    /\ UNCHANGED <<state, ret, scan>>

\* The ready states a call may be given: none, the session's own, nobody ready,
\* everybody ready, and one that names only the first player.
ReadyStatesFor(m, players) ==
    { NoReadyState, m.readyState, Ready([p \in Range(players) |-> FALSE]),
      Ready([p \in Range(players) |-> TRUE]), Ready([p \in {players[1]} |-> TRUE]) }

\* maybeComputeGameStartAt called with the session's start time.
ComputeGameStartAt ==
    /\ scan.ran /\ scan.kind = "ready"
    /\ \E readyState \in ReadyStatesFor(meta, state.players) :
          scan' = [scan EXCEPT !.call =
                     [made |-> TRUE,
                      opts |-> StartOpts(meta.gameStartAt, state.players, readyState, scan.now,
                                         READY_GRACE_MS),
                      result |-> maybeComputeGameStartAt(
                                     StartOpts(meta.gameStartAt, state.players, readyState,
                                               scan.now, READY_GRACE_MS))]]
    /\ UNCHANGED <<state, ret, meta>>

ReadyNext == ReadyTick \/ MarkLocalReady \/ HandlePlayerReady \/ ComputeGameStartAt

ReadySpec == ReadyInit /\ [][ReadyNext]_vars

\* Every player of the list is marked ready in the ready state.
EveryoneMarked(players, readyState) ==
    /\ readyState.defined
    /\ { players[i] : i \in 1..Len(players) }
          \subseteq { p \in DOMAIN readyState.ready : readyState.ready[p] }

CallAsSpecified(call) ==
    IF call.opts.currentStartAt.set THEN call.result = call.opts.currentStartAt
    ELSE IF EveryoneMarked(call.opts.players, call.opts.readyState)
    THEN call.result.set /\ call.result.at = call.opts.now + call.opts.graceMs
    ELSE ~call.result.set

\* The session's start is set exactly when it was unset and everybody has become
\* ready, to now + grace; once set it stays.
StartKept(m, next, now) ==
    /\ m.gameStartAt.set => next.gameStartAt = m.gameStartAt
    /\ (~m.gameStartAt.set /\ next.gameStartAt.set) =>
          /\ EveryoneMarked(state.players, next.readyState)
          /\ next.gameStartAt.at = now + READY_GRACE_MS
    /\ (~m.gameStartAt.set /\ ~next.gameStartAt.set) =>
          ~EveryoneMarked(state.players, next.readyState)

\* C34: maybeComputeGameStartAt returns null until every player is marked ready,
\* now + graceMs when all are ready and no start is set, and the start already
\* set whatever the ready state and the clock; the session's scheduled start
\* never moves and is never cancelled.
C34_ReadyGate ==
    /\ []((scan.ran /\ scan.kind = "ready" /\ scan.call.made) => CallAsSpecified(scan.call))
    /\ [][(scan.ran /\ scan.kind = "ready") => StartKept(meta, meta', scan.now)]_vars

\* With the start scheduled and a player no longer marked ready, at a later time,
\* the function has been called and has returned the scheduled start.
C34_Witness ==
    /\ scan.ran /\ scan.kind = "ready" /\ scan.call.made
    /\ scan.call.opts.currentStartAt.set
    /\ ~EveryoneMarked(state.players, meta.readyState)
    /\ scan.call.opts.readyState = meta.readyState
    /\ scan.call.opts.now > scan.call.opts.currentStartAt.at - READY_GRACE_MS
    /\ scan.call.result = meta.gameStartAt

\* ------------------------------------------------------------- timer spec
\* The gate of the first turn timer.  An optional field is <<>> when it is
\* missing or null and <<v>> when it holds v.
IsTruthyFlag(field) == field /= <<>> /\ field[1] = TRUE

IsTruthyNumber(field) == field /= <<>> /\ field[1] /= 0

NoSessionMeta == [present |-> FALSE]

UndefinedStart == [set |-> FALSE, absent |-> TRUE]

SessionTimerMeta(mode, remotePlayerId, timerEnabled, timerDurationSec, turnDeadline, gameStartAt) ==
    [present |-> TRUE, mode |-> mode, isHost |-> mode \in { "host", "solo" },
     remotePlayerId |-> remotePlayerId, timerEnabled |-> timerEnabled,
     timerDurationSec |-> timerDurationSec, turnDeadline |-> turnDeadline,
     gameStartAt |-> gameStartAt]

\* Mutant of canStartInitialTurnTimer: the host does not wait for the data channel.
canStartInitialTurnTimer_NoWait(m, connectionReady) ==
    IF ~m.present THEN FALSE
    ELSE IF ~IsTruthyFlag(m.timerEnabled) \/ ~IsTruthyNumber(m.timerDurationSec) THEN FALSE
    ELSE m.mode /= "client"

canStartInitialTurnTimer(m, connectionReady) ==
    IF ~m.present THEN FALSE
    ELSE IF ~IsTruthyFlag(m.timerEnabled) \/ ~IsTruthyNumber(m.timerDurationSec) THEN FALSE
    ELSE IF m.mode = "solo" THEN TRUE
    ELSE IF m.mode = "client" THEN FALSE
    ELSE IF m.mode = "host" /\ m.remotePlayerId /= <<>> /\ m.remotePlayerId[1] /= ""
              /\ ~IsTruthyNumber(m.turnDeadline)
    THEN connectionReady
    ELSE TRUE

isReadyGateEnabled(m) == m.present /\ m.mode /= "solo" /\ m.gameStartAt /= UndefinedStart

\* resetTurnTimer, lines 734-766, with the connection and the clock it reads.
resetTurnTimerGated(m, connectionReady, now) ==
    IF ~m.present THEN m
    ELSE IF ~IsTruthyFlag(m.timerEnabled) \/ ~IsTruthyNumber(m.timerDurationSec)
    THEN [m EXCEPT !.turnDeadline = <<>>]
    ELSE IF /\ ~IsTruthyNumber(m.turnDeadline) /\ isReadyGateEnabled(m)
            /\ (~m.gameStartAt.set \/ now < m.gameStartAt.at)
    THEN [m EXCEPT !.turnDeadline = <<>>]
    ELSE IF ~IsTruthyNumber(m.turnDeadline) /\ ~canStartInitialTurnTimer(m, connectionReady)
    THEN [m EXCEPT !.turnDeadline = <<>>]
    ELSE [m EXCEPT !.turnDeadline = <<now + m.timerDurationSec[1] * 1000>>]

TimerDurations == { <<>>, <<0>>, <<300>> }

TimerClock == { 1000, 5000 }

TimerMetas ==
    { SessionTimerMeta(mode, remote, enabled, duration, deadline, gameStartAt) :
        mode \in { "solo", "host", "client" }, remote \in { <<>>, <<"client">> },
        enabled \in { <<>>, <<FALSE>>, <<TRUE>> }, duration \in TimerDurations,
        deadline \in { <<>>, <<9000>> },
        gameStartAt \in { UndefinedStart, NoStart, StartAt(READY_GRACE_MS) } }

NoAnswer == [asked |-> FALSE]

TimerInit ==
    /\ state = baseState(createBoard, [p1 |-> <<FixtureTile(11, "I", 1)>>, p2 |-> <<FixtureTile(21, "T", 1)>>], <<>>)
    /\ ret = NoRet
    /\ meta \in TimerMetas \cup { NoSessionMeta }
    /\ \E connectionReady \in BOOLEAN : \E now \in TimerClock :
          scan = [ran |-> TRUE, kind |-> "timer", connectionReady |-> connectionReady,
                  now |-> now, answer |-> NoAnswer, resets |-> 0]

\* canStartInitialTurnTimer asked about the session as it stands.
CanStartInitialTurnTimer ==
    /\ scan.ran /\ scan.kind = "timer" /\ ~scan.answer.asked
    /\ scan' = [scan EXCEPT !.answer =
                  [asked |-> TRUE, meta |-> meta, connectionReady |-> scan.connectionReady,
                   result |-> canStartInitialTurnTimer(meta, scan.connectionReady)]]
    /\ UNCHANGED <<state, ret, meta>>

MaxResets == 1

\* resetTurnTimer as its callers reach it: on the host or in a solo game.
ResetTurnTimer ==
    /\ scan.ran /\ scan.kind = "timer" /\ scan.resets < MaxResets
    /\ meta.present => meta.isHost \/ meta.mode = "solo"
    /\ meta' = resetTurnTimerGated(meta, scan.connectionReady, scan.now)
    /\ scan' = [scan EXCEPT !.resets = @ + 1]
    /\ UNCHANGED <<state, ret>>

\* The data channel opens or closes.
DataChannelChanges ==
    /\ scan.ran /\ scan.kind = "timer" /\ scan.resets < MaxResets
    /\ scan' = [scan EXCEPT !.connectionReady = ~@, !.answer = NoAnswer]
    /\ UNCHANGED <<state, ret, meta>>

TimerNext == CanStartInitialTurnTimer \/ ResetTurnTimer \/ DataChannelChanges

TimerSpec == TimerInit /\ [][TimerNext]_vars

\* -------------------------------------------------------- initial timer gating
TimerIsOn(m) == m.present /\ m.timerEnabled = <<TRUE>> /\ m.timerDurationSec \notin { <<>>, <<0>> }

WaitsForPeer(m) == m.mode = "host" /\ m.remotePlayerId = <<"client">> /\ m.turnDeadline = <<>>

MayStart(m, connectionReady) ==
    /\ TimerIsOn(m)
    /\ m.mode /= "client"
    /\ WaitsForPeer(m) => connectionReady

AnswerAsSpecified(a) ==
    /\ a.result = MayStart(a.meta, a.connectionReady)
    /\ (~a.meta.present \/ ~TimerIsOn(a.meta) \/ a.meta.mode = "client") => ~a.result
    /\ (TimerIsOn(a.meta) /\ a.meta.mode \in { "solo", "host" } /\ ~WaitsForPeer(a.meta)) => a.result

\* The first deadline is set only where the timer may start.
FirstStartGated(m, next, connectionReady) ==
    (m.present /\ m.turnDeadline = <<>> /\ next.turnDeadline /= <<>>) =>
        /\ MayStart(m, connectionReady)
        /\ m.mode /= "client"

\* C35: the first turn timer never starts on a client, without session meta, or
\* with the timer disabled or without duration; a host with a remote player and
\* no deadline yet may start it only with the data channel open; a solo game, a
\* host without remote player and a host that already has a deadline may start
\* it without a connection.
C35_InitialTimerGate ==
    /\ []((scan.ran /\ scan.kind = "timer" /\ scan.answer.asked) => AnswerAsSpecified(scan.answer))
    /\ [][(scan.ran /\ scan.kind = "timer") => FirstStartGated(meta, meta', scan.connectionReady)]_vars

\* A host with a remote player and no deadline was refused with the data channel
\* closed.
C35_Witness ==
    /\ scan.ran /\ scan.kind = "timer" /\ scan.answer.asked
    /\ TimerIsOn(scan.answer.meta) /\ WaitsForPeer(scan.answer.meta)
    /\ ~scan.answer.connectionReady
    /\ ~scan.answer.result

\* A host with a remote player and the data channel open has had its first
\* deadline set by resetTurnTimer.
C35_WitnessStarted ==
    /\ scan.ran /\ scan.kind = "timer" /\ scan.resets = 1
    /\ meta.present /\ meta.mode = "host" /\ meta.remotePlayerId = <<"client">>
    /\ meta.turnDeadline = <<scan.now + 300 * 1000>>
    /\ scan.connectionReady

\* ------------------------------------------------------------ async spec
\* The host's handlers around the engine's asynchronous placeMove.  hasWord
\* awaits ensureDictionary: with the dictionary in the memory cache the await
\* settles within the handler's task, otherwise every lookup awaits a read of
\* IndexedDB and the event loop runs other handlers (a peer message, a button, the
\* timer tick) before placeMove goes on.  scan holds the suspended calls.

\* How many engine calls the handlers start, and how many placeMove calls may be
\* suspended at once.
MaxAsyncCalls == 3
MaxSuspended == 2

\* A Russian position: r16 on the center, the bag empty.
BoardRU == (<<7, 7>> :> FixtureTile(1, "r16", 1))

\* A game whose dictionary is in memory, and a Russian game whose primary
\* dictionary is not stored while the strict one is (hasWord, lines 688-697).
AsyncGames ==
    { [game |-> baseState(BoardON, [p1 |-> <<FixtureTile(11, "N", 1), FixtureTile(12, "O", 1)>>,
                                    p2 |-> <<FixtureTile(21, "M", 3)>>], <<>>),
       inMemory |-> TRUE],
      [game |-> [baseState(BoardRU, [p1 |-> <<FixtureTile(11, "r17", 2), FixtureTile(12, "r16", 1)>>,
                                     p2 |-> <<FixtureTile(21, "r17", 2)>>], <<>>)
                    EXCEPT !.language = "ru"],
       inMemory |-> FALSE] }

AsyncOrigins == { <<8, 7>>, <<7, 8>> }
AsyncTemplates == { << << <<0, 0>> >>, <<1>> >>, << << <<0, 0>> >>, <<2>> >> }

\* The handlers that reach the engine: submitMove and submitPass of the local
\* player, handleMessage for a peer's ACTION_MOVE and ACTION_PASS, and the timer.
MoveSources == { "submitMove", "ACTION_MOVE" }
PassSources == { "submitPass", "ACTION_PASS", "maybeAutoPassOnTimeout" }

\* The player a handler names: the local player, the sender's playerId field or
\* the player to move.
CallersOf(s, source) ==
    IF source \in { "submitMove", "submitPass" } THEN { s.players[1] }
    ELSE IF source = "maybeAutoPassOnTimeout" THEN { s.currentPlayer }
    ELSE Range(s.players)

\* buildWordChecker over the dictionary service in the game's language.
asyncChecker(s, inMemory) == buildWordChecker(s.language, 2, inMemory)

\* placeMove, lines 136-176, and validateMoveOnState, lines 441-455: the checks on
\* the placements made before computeScore is called.
placementChecksPass(s, playerId, placements) ==
    /\ Len(placements) /= 0
    /\ AllInBounds(placements)
    /\ playerHasTiles(s.racks[playerId], PlacementIds(placements))
    /\ AllCellsEmpty(s.board, placements)
    /\ inferOrientation(s.board, placements) /= Null
    /\ (~boardHasAnyTiles(s.board) => CoversCenter(placements))
    /\ (boardHasAnyTiles(s.board) => touchesExisting(s.board, placements))
    /\ isContiguous(s.board, placements, inferOrientation(s.board, placements))

reachesComputeScore(s, playerId, placements) ==
    s.currentPlayer = playerId /\ placementChecksPass(s, playerId, placements)

\* A placeMove suspended in computeScore: tempBoard and the formed words were
\* taken from the board at the call (computeScore, lines 597-604), so the score
\* it resumes with is that of the position it was called in.
SuspendedCall(s, source, playerId, placements, chk) ==
    [source |-> source, playerId |-> playerId, placements |-> placements,
     scoreResult |-> computeScore(s.board, placements,
                                  inferOrientation(s.board, placements), s.language, chk)]

NoEvent == [op |-> "none"]

\* What the last step did: the operation, its caller, how many placeMove calls
\* were suspended when it ran and, for a resumption, the call that went on.
Event(op, source, playerId, during, call) ==
    [op |-> op, source |-> source, playerId |-> playerId, during |-> during, call |-> call]

AsyncInit ==
    /\ \E g \in AsyncGames :
          /\ state = resume(g.game)
          /\ scan = [ran |-> TRUE, kind |-> "async", inMemory |-> g.inMemory,
                     pending |-> <<>>, started |-> 0, event |-> NoEvent]
    /\ ret = NoRet
    /\ meta = NoMeta

\* game.placeMove(playerId, placements, buildWordChecker()) as submitMove (line
\* 1939) and handleMessage (line 1810) call it: a call the checks reject, or one
\* made with the dictionary in memory, is over within the task; otherwise the
\* call is suspended in computeScore.
asyncPlaceMove(source, playerId, placements, chk) ==
    IF scan.inMemory \/ ~reachesComputeScore(state, playerId, placements)
    THEN LET r == placeMove(state, playerId, placements, chk)
         IN  /\ state' = r.state
             /\ ret' = Ret("placeMove", playerId, r.result)
             /\ scan' = [scan EXCEPT !.started = @ + 1,
                            !.event = Event("placeMove", source, playerId,
                                            Len(scan.pending), <<>>)]
    ELSE /\ Len(scan.pending) < MaxSuspended
         /\ state' = state
         /\ ret' = ret
         /\ scan' = [scan EXCEPT !.started = @ + 1,
                        !.pending = Append(@, SuspendedCall(state, source, playerId,
                                                            placements, chk)),
                        !.event = Event("placeMove", source, playerId,
                                        Len(scan.pending), <<>>)]

AsyncPlaceMove ==
    /\ scan.started < MaxAsyncCalls
    /\ \E source \in MoveSources :
       \E playerId \in CallersOf(state, source) :
       \E placements \in PlacementInputs(state, playerId, AsyncOrigins, AsyncTemplates) :
          asyncPlaceMove(source, playerId, placements, asyncChecker(state, scan.inMemory))
    /\ UNCHANGED meta

\* placeMove from line 178 on, when the awaited computeScore settles: it goes on
\* with the state object it took at line 133, which is the game's state as it is
\* by now.
asyncResume(i, chk) ==
    LET call == scan.pending[i]
        r == placeMoveScored(state, call.playerId, call.placements, chk, call.scoreResult)
    IN  /\ state' = r.state
        /\ ret' = Ret("placeMove", call.playerId, r.result)
        /\ scan' = [scan EXCEPT !.pending = RemoveAt(@, i),
                       !.event = Event("resume", call.source, call.playerId,
                                       Len(scan.pending) - 1, <<call>>)]

AsyncResume ==
    /\ \E i \in 1..Len(scan.pending) : asyncResume(i, asyncChecker(state, scan.inMemory))
    /\ UNCHANGED meta

\* game.passTurn(playerId) as submitPass, handleMessage (ACTION_PASS) and
\* maybeAutoPassOnTimeout (line 838) call it: synchronous.
asyncPassTurn(source, playerId) ==
    LET r == passTurn(state, playerId)
    IN  /\ state' = r.state
        /\ ret' = Ret("passTurn", playerId, r.result)
        /\ scan' = [scan EXCEPT !.started = @ + 1,
                       !.event = Event("passTurn", source, playerId, Len(scan.pending), <<>>)]

AsyncPassTurn ==
    /\ scan.started < MaxAsyncCalls
    /\ \E source \in PassSources :
       \E playerId \in CallersOf(state, source) : asyncPassTurn(source, playerId)
    /\ UNCHANGED meta

AsyncNext == AsyncPlaceMove \/ AsyncResume \/ AsyncPassTurn

AsyncSpec == AsyncInit /\ [][AsyncNext]_vars

IsAsync == scan.ran /\ scan.kind = "async"

\* The step starts an engine call.
StartsCall == scan'.started = scan.started + 1

\* C36: on the host no placeMove, passTurn or timer auto-pass is started while a
\* placeMove is suspended awaiting the dictionary.
C36_CallsSerialized ==
    [][(IsAsync /\ StartsCall) => scan.pending = <<>>]_vars

\* The call a resumption goes on with was validated against a position the game
\* has left: its player is no longer to move, or one of its cells is occupied.
ResumedStale(s, call) ==
    \/ s.currentPlayer /= call.playerId
    \/ ~AllCellsEmpty(s.board, call.placements)

\* C37: a placeMove that resumes after another action changed the board or the
\* player to move does not overwrite an occupied cell, credit a score or advance
\* the turn.
C37_AppliesOnlyToValidated ==
    [][(IsAsync /\ scan'.event.op = "resume" /\ ResumedStale(state, scan'.event.call[1]))
          => (state'.board = state.board /\ state'.scores = state.scores
              /\ state'.currentPlayer = state.currentPlayer
              /\ state'.moveNumber = state.moveNumber)]_vars

\* ------------------------------------------------------------- peer spec
\* The host handling one ACTION_MOVE: the placements are the message's, tile
\* objects included, so each tile is whatever the peer wrote next to the id.

\* A value no tile of the set has.
ForgedValue == 9

\* A tile object a peer can send for the rack tile t: t itself, t with another
\* value, t with another letter.
TilesSentFor(t) == { t, [t EXCEPT !.value = ForgedValue], [t EXCEPT !.letter = "M"] }

RECURSIVE PlacementsSentFor(_)
PlacementsSentFor(placements) ==
    IF placements = <<>> THEN { <<>> }
    ELSE { <<[Head(placements) EXCEPT !.tile = t]>> \o rest :
              t \in TilesSentFor(Head(placements).tile),
              rest \in PlacementsSentFor(Tail(placements)) }

PeerMoveTemplates ==
    { <<Line(1, 1, 0), <<1>> >>, <<Line(1, 1, 0), <<2>> >>, <<Line(2, 1, 0), <<1, 2>> >>,
      <<Line(2, 0, 1), <<1, 2>> >>, <<Line(2, 0, 1), <<2, 1>> >> }

PeerOriginCells == { <<7, 8>>, <<7, 6>>, <<6, 7>>, <<9, 7>>, <<8, 8>>, <<6, 8>> }

\* The messages explored: the moves of the templates with every tile as sent.
MovesSentAs(s, playerId) ==
    UNION { { [playerId |-> playerId, placements |-> sent] :
                sent \in PlacementsSentFor(placements) } :
            placements \in PlacementInputs(s, playerId, PeerOriginCells, PeerMoveTemplates) }

ActionMoves(s) == UNION { MovesSentAs(s, playerId) : playerId \in Range(s.players) }

PeerInit ==
    /\ \E snapshot \in HostSnapshots : state = resume(snapshot)
    /\ ret = NoRet
    /\ meta = NoMeta
    /\ scan = NoScan

\* handleMessage, ACTION_MOVE (main.ts 1809-1814):
\* game.placeMove(msg.playerId, msg.placements, buildWordChecker()).
handleActionMove(msg, chk) ==
    LET r == placeMove(state, msg.playerId, msg.placements, chk)
    IN  /\ state' = r.state
        /\ ret' = Ret("placeMove", msg.playerId, r.result)
        /\ scan' = [Called("placeMove", msg.playerId, msg.placements, <<>>, chk)
                       EXCEPT !.kind = "peer"]

PeerActionMove ==
    /\ ~scan.ran
    /\ \E msg \in ActionMoves(state) :
          handleActionMove(msg, buildWordChecker(state.language, 2, TRUE))
    /\ UNCHANGED meta

PeerNext == PeerActionMove

PeerSpec == PeerInit /\ [][PeerNext]_vars

\* The tile of `rack` with the given id (the rack has one: the move succeeded).
RackTile(rack, id) == rack[FindIndexId(rack, id, 1)]

\* The tile laid by placement p is the rack's tile of that id; a blank carries
\* the letter chosen for it and the value 0.
StoredFaithfully(before, after, playerId, p) ==
    LET mine == RackTile(before.racks[playerId], p.tile.id)
        stored == after.board[<<p.x, p.y>>]
    IN  /\ stored.id = mine.id
        /\ stored.value = mine.value
        /\ (~mine.blank => stored.letter = mine.letter)

\* The score of the move made of the rack's own tiles on the same cells.
HonestScore(s, playerId, placements, chk) ==
    LET honest == [i \in 1..Len(placements) |->
                      [placements[i] EXCEPT
                          !.tile = LET mine == RackTile(s.racks[playerId], placements[i].tile.id)
                                   IN  IF mine.blank
                                       THEN [mine EXCEPT !.letter = placements[i].tile.letter]
                                       ELSE mine]]
    IN  placeMove(s, playerId, honest, chk).result.scoreDelta

\* C38: the tile a successful placeMove stores has the letter and value of the
\* rack tile with its id (a blank: the chosen letter, value 0), and the move
\* scores what the rack's own tiles score, whatever the caller wrote in the tile.
C38_TileFidelity ==
    [][(scan'.ran /\ scan'.kind = "peer" /\ ret'.success)
          => /\ \A i \in 1..Len(scan'.placements) :
                   StoredFaithfully(state, state', scan'.playerId, scan'.placements[i])
             /\ ret'.scoreDelta = HonestScore(state, scan'.playerId, scan'.placements,
                                              scan'.chk)]_vars

\* ------------------------------------------------------------- query spec
\* The end-of-game queries, one candidate placement at a time.  scan holds the
\* query under way: the state it was called in, the players still to scan and the
\* iterations of hasValidMovesWithWords' loops still to run for the first of them.

RECURSIVE SeqOfSet(_)
SeqOfSet(S) ==
    IF S = {} THEN <<>> ELSE LET x == CHOOSE e \in S : TRUE IN <<x>> \o SeqOfSet(S \ {x})

\* hasValidMovesWithWords, lines 369-375: the iterations for one word at one
\* anchor, rows before columns, idx ascending.
TrialsAt(word, anchor) ==
    [i \in 1..(2 * Len(word)) |->
        LET orientation == IF i <= Len(word) THEN "row" ELSE "col"
            idx == (i - 1) % Len(word)
        IN  [word |-> word, orientation |-> orientation,
             startX |-> IF orientation = "row" THEN anchor[1] - idx ELSE anchor[1],
             startY |-> IF orientation = "row" THEN anchor[2] ELSE anchor[2] - idx]]

RECURSIVE TrialsOfWord(_, _)
TrialsOfWord(word, anchors) ==
    IF anchors = <<>> THEN <<>>
    ELSE TrialsAt(word, Head(anchors)) \o TrialsOfWord(word, Tail(anchors))

\* hasValidMovesWithWords, lines 363-367: every word, trimmed and upper-cased;
\* empty words and words longer than the board are skipped.
RECURSIVE TrialsOf(_, _)
TrialsOf(words, anchors) ==
    IF words = <<>> THEN <<>>
    ELSE LET word == normalize(Head(words))
         IN  (IF word = <<>> \/ Len(word) > BOARD_SIZE THEN <<>>
              ELSE TrialsOfWord(word, anchors))
             \o TrialsOf(Tail(words), anchors)

\* The iterations hasValidMovesWithWords runs for a player: none with an empty
\* rack (line 352).
TrialsFor(s, playerId, words) ==
    IF Len(s.racks[playerId]) = 0 THEN <<>>
    ELSE TrialsOf(SeqOfSet(words), AnchorSeq(s.board))

\* The placements of an iteration (lines 376-422), <<>> when it is skipped.
CandidateOf(s, playerId, trial) ==
    LET endX == trial.startX + (Len(trial.word) - 1) * StepX(trial.orientation)
        endY == trial.startY + (Len(trial.word) - 1) * StepY(trial.orientation)
    IN  IF ~(inBounds(trial.startX) /\ inBounds(trial.startY) /\ inBounds(endX) /\ inBounds(endY))
        THEN <<>>
        ELSE BuildCandidate(s.board, s.racks[playerId], trial.word, trial.startX,
                            trial.startY, trial.orientation, 1, {}, {}, <<>>)

\* Mutant of computeScore's copy: the placements are written into the board itself.
scoreTrial_InPlace(board, placements) ==
    [board |-> ApplyPlacements(board, placements), tempBoard |-> ApplyPlacements(board, placements)]

\* computeScore, lines 597-600: tempBoard is a copy of every cell of the board, and
\* the placements are written into the copy.
scoreTrial(board, placements) ==
    [board |-> board, tempBoard |-> ApplyPlacements(board, placements)]

\* validateMoveOnState (lines 435-463) on a candidate: whether it is a legal move,
\* and the game's board once computeScore has run on it.
tryCandidate(s, playerId, placements, chk) ==
    IF placements /= <<>> /\ (~boardHasAnyTiles(s.board) => CoversCenter(placements))
       /\ placementChecksPass(s, playerId, placements)
    THEN [ok |-> validateMoveOnState(s, playerId, placements, chk), scored |-> 1,
          board |-> scoreTrial(s.board, placements).board]
    ELSE [ok |-> FALSE, scored |-> 0, board |-> s.board]

QueryOps == { "checkGameEnd", "checkAllPlayersHaveNoValidMoves", "hasValidMoves" }

QueryCheckers(language) ==
    { buildWordChecker(language, 2, TRUE), buildWordChecker(language, 2, FALSE),
      PlainChecker(language, 2, "absent") }

\* A query that has returned `result`.
Answered1(q, result) == [q EXCEPT !.done = TRUE, !.result = result, !.players = <<>>, !.queue = <<>>]

\* A query scanning `players` in turn: the first player's iterations are queued;
\* a player with none is passed over, and with no player left the scan is over.
RECURSIVE Scanning(_, _, _, _)
Scanning(q, s, players, words) ==
    IF players = <<>> THEN Answered1(q, IF q.op = "hasValidMoves" THEN "false" ELSE "true")
    ELSE LET trials == TrialsFor(s, Head(players), words)
         IN  IF trials = <<>> THEN Scanning(q, s, Tail(players), words)
             ELSE [q EXCEPT !.players = players, !.queue = trials]

\* The query as it stands when its first candidate is due, or its answer when it
\* has none to try: checkGameEnd, lines 82-99, checkAllPlayersHaveNoValidMoves,
\* lines 101-115, hasValidMoves, lines 117-124.
beginQuery(s, op, playerId, chk) ==
    LET q == [ran |-> TRUE, kind |-> "query", op |-> op, playerId |-> playerId, chk |-> chk,
              before |-> s, players |-> <<>>, queue |-> <<>>, scored |-> 0,
              done |-> FALSE, result |-> "none"]
        words == resolveAllWords(chk)
    IN  IF op = "checkGameEnd" /\ checkSequentialSkips(s) THEN Answered1(q, "four_passes")
        ELSE IF op = "checkGameEnd" /\ ~(Len(s.bag) * 2 < getInitialBagSize(s.language))
            THEN Answered1(q, "false")
        ELSE IF op = "checkGameEnd" /\ Len(s.bag) /= 0 THEN Answered1(q, "false")
        ELSE IF words.isNull
            THEN Answered1(q, IF op = "hasValidMoves" THEN "true" ELSE "false")
        ELSE Scanning(q, s, IF op = "hasValidMoves" THEN <<playerId>> ELSE s.players,
                      words.words)

QueryInit ==
    /\ \E snapshot \in EndSnapshots : state = resume(snapshot)
    /\ ret = NoRet
    /\ meta = NoMeta
    /\ scan = NoScan

QueryBegin ==
    /\ ~scan.ran
    /\ \E op \in QueryOps :
       \E playerId \in (IF op = "hasValidMoves" THEN Range(state.players) ELSE {""}) :
       \E chk \in QueryCheckers(state.language) :
          scan' = beginQuery(state, op, playerId, chk)
    /\ UNCHANGED <<state, ret, meta>>

\* One iteration of the innermost loop for the player being scanned: a legal
\* candidate ends the query, otherwise the next iteration or the next player is due.
queryTry(q, s, r) ==
    LET q1 == [q EXCEPT !.scored = @ + r.scored]
    IN  IF r.ok THEN Answered1(q1, IF q.op = "hasValidMoves" THEN "true" ELSE "false")
        ELSE IF Len(q.queue) > 1 THEN [q1 EXCEPT !.queue = Tail(@)]
        ELSE Scanning(q1, s, Tail(q.players), resolveAllWords(q.chk).words)

QueryTry ==
    /\ scan.ran /\ scan.kind = "query" /\ ~scan.done
    /\ \E r \in { tryCandidate(state, Head(scan.players),
                               CandidateOf(state, Head(scan.players), Head(scan.queue)),
                               scan.chk) } :
          /\ state' = [state EXCEPT !.board = r.board]
          /\ scan' = queryTry(scan, state', r)
    /\ UNCHANGED <<ret, meta>>

QueryNext == QueryBegin \/ QueryTry

QuerySpec == QueryInit /\ [][QueryNext]_vars

IsQuery == scan.ran /\ scan.kind = "query"

\* The answer the query gives is the one the engine's functions compute.
AnswerOf(q) ==
    IF q.op = "hasValidMoves"
    THEN IF hasValidMoves(q.before, q.playerId, q.chk) THEN "true" ELSE "false"
    ELSE IF q.op = "checkAllPlayersHaveNoValidMoves"
    THEN IF checkAllPlayersHaveNoValidMoves(q.before, q.chk) THEN "true" ELSE "false"
    ELSE LET ended == checkGameEnd(q.before, q.chk)
         IN  IF ~ended.ended THEN "false"
             ELSE IF ended.reason = "four_passes" THEN "four_passes" ELSE "true"

QueryAnswers == (IsQuery /\ scan.done) => scan.result = AnswerOf(scan)

\* C39: during and after checkGameEnd, checkAllPlayersHaveNoValidMoves and
\* hasValidMoves the game - board, bag, racks, scores, currentPlayer, moveNumber,
\* history - is the one the query was called on, whatever the answer and however
\* many candidate placements were tried.
C39_QueriesReadOnly ==
    IsQuery => state = scan.before

\* A checkGameEnd that ran computeScore on several candidates before it answered.
C39_Witness ==
    /\ IsQuery /\ scan.done /\ scan.op = "checkGameEnd"
    /\ scan.scored >= 2
    /\ state = scan.before

\* A hasValidMoves that found a move after a candidate that was not one.
C39_WitnessFound ==
    /\ IsQuery /\ scan.done /\ scan.op = "hasValidMoves" /\ scan.result = "true"
    /\ scan.scored >= 2
    /\ state = scan.before

====
